---- MODULE Spec2Model ----
(***************************************************************************)
(* A model of the mnemos findings store: the main log (one JSON record per *)
(* line), the side files compaction writes beside it, and the operations  *)
(* of MnemosCompressor (compress, archive, delete, decompress, list), of  *)
(* MnemosLogger (append, undo) and of BiologicalMemoryManager (the memory *)
(* state, the compression triggers, auto_compress_if_needed).             *)
(*                                                                         *)
(* A file is the sequence of the records on its lines.  A string is an    *)
(* atomic token: a filter matches a record when the lower-cased filter is *)
(* one of the lower-cased tokens of the record's JSON text.               *)
(***************************************************************************)
EXTENDS Integers, Sequences, FiniteSets, TLC

\* ---------------------------------------------------------------- bounds
MaxAppend == 2      \* records appended in one behaviour
MaxOps == 3         \* calls that rewrite the log started in one behaviour

\* int(time.time()) shows one of two consecutive seconds: two calls read the
\* same second or different ones
Seconds == {0, 1}

\* keep_recent is drawn from 0..MaxKeep
MaxKeep == MaxAppend - 1

\* calls started on a log longer than load_findings reads, and on a log of
\* one of the Shapes
LongOps == MaxOps - 1
GrownOps == MaxOps - 1

\* ------------------------------------------------------ program constants
LoadLimit == 1000   \* load_findings(1000) in every compaction operation

VARIABLES
    main,       \* the lines of the main log file
    files,      \* side files of the store directory: name -> lines
    clock,      \* the wall clock in whole seconds
    pc,         \* where the running call stands ("idle": none running)
    cur,        \* the running (or last) call: arguments, what it loaded, result
    prev,       \* the call before cur
    nextId,     \* the next fresh record id
    opsLeft,    \* rewriting calls the behaviour may still start
    crashes     \* whether the process may still stop inside a call

vars == <<main, files, clock, pc, cur, prev, nextId, opsLeft, crashes>>

\* --------------------------------------------------------------- records
\* A record of the log: its id, type, severity (issues) and free text; cid and
\* cnt are the compression id and the counts of the two synthetic records.
\* An issue is written with status "open"; issue_id (resolved records), thread
\* and status (thread records) are set by the methods that write them.  json
\* tells what json.loads makes of the line: every line the logger writes is an
\* "object".
Rec(id, type, sev, txt) ==
    [id |-> id, type |-> type, sev |-> sev, txt |-> txt, cid |-> -1, cnt |-> <<>>,
     issue_id |-> -1, thread |-> "",
     status |-> IF type = "issue" THEN "open" ELSE "", json |-> "object"]

\* what the logger's methods write: <<type, severity, free text>>
AppendKinds ==
    { <<"observation", "", "a">>,
      <<"discovery", "", "a">>,
      <<"issue", "critical", "B">> }

\* the counts of a result dictionary, and the tags auto_compress_if_needed
\* adds to it
NoResult ==
    [original_count |-> 0, compressed_count |-> 0, preserved_discoveries |-> 0,
     recovered_count |-> 0, total_count |-> 0,
     trigger |-> "", trigger_description |-> "", memory_pressure |-> "",
     auto_compression |-> FALSE]

\* MemoryState(0, 0, 0, 0, 0, 0.0, None); hours are counted in tenths, -1
\* stands for None
ZeroState ==
    [total_entries |-> 0, recent_entries |-> 0, discoveries |-> 0, patterns |-> 0,
     unresolved_issues |-> 0, memory_age_hours |-> 0, last_compression_hours |-> -1]

\* a call: its arguments (keep, filter, older, ids; force and arg of
\* auto_compress_if_needed and manual_compress), the log it found (pre), the
\* files it wrote, the MemoryState and trigger it computed, the reads that
\* raised, and its result (status, reason, res)
NoCall ==
    [op |-> "none", status |-> "none", pre |-> <<>>, cid |-> -1, keep |-> 0,
     filter |-> "", older |-> 0, ids |-> {}, wrote |-> {}, res |-> NoResult,
     force |-> FALSE, arg |-> 0, state |-> ZeroState, trigger |-> "unevaluated",
     reason |-> "", failed |-> {}]

\* what is remembered of the call before the current one: a compression that
\* succeeded, with its id and the log it found, or a decompression that
\* succeeded, with its id
Done(c) ==
    IF c.op = "compress" /\ c.status = "reversible_compression"
    THEN [op |-> c.op, cid |-> c.cid, pre |-> c.pre]
    ELSE IF c.op = "decompress" /\ c.status = "decompressed"
    THEN [op |-> c.op, cid |-> c.cid, pre |-> <<>>]
    ELSE [op |-> "other", cid |-> -1, pre |-> <<>>]

\* ------------------------------------------------------- python helpers
\* s[-k:]  (k >= 0): the whole list for k = 0
PyLast(s, k) ==
    IF k = 0 \/ k >= Len(s) THEN s ELSE SubSeq(s, Len(s) - k + 1, Len(s))

\* s[:-k]  (k >= 0): the empty list for k = 0
PyButLast(s, k) ==
    IF k = 0 \/ k >= Len(s) THEN <<>> ELSE SubSeq(s, 1, Len(s) - k)

\* x in s, by equality
InSeq(x, s) == \E i \in DOMAIN s : s[i] = x

Put(fs, name, lines) ==
    [n \in DOMAIN fs \cup {name} |-> IF n = name THEN lines ELSE fs[n]]

Remove(fs, name) == [n \in DOMAIN fs \ {name} |-> fs[n]]

\* ------------------------------------------------------- load_findings
LoadFindings(file) == PyLast(file, LoadLimit)

\* --------------------------------------------------- compress_findings
NoCompressionNeeded_Strict(findings, k) == Len(findings) < k

\* the guard of the no-op return
NoCompressionNeeded(findings, k) == Len(findings) <= k

Recent(findings, k) == PyLast(findings, k)
Old(findings, k) == PyButLast(findings, k)

IsType(f, t) == f.type = t
IsCriticalIssue(f) == f.type \in {"bug", "issue"} /\ f.sev = "critical"

Discoveries(old) == SelectSeq(old, LAMBDA f : IsType(f, "discovery"))
Patterns(old) == SelectSeq(old, LAMBDA f : IsType(f, "pattern"))
Principles(old) == SelectSeq(old, LAMBDA f : IsType(f, "principle"))
CriticalIssues(old) == SelectSeq(old, IsCriticalIssue)

Preserved(old) ==
    Discoveries(old) \o Patterns(old) \o Principles(old) \o CriticalIssues(old)

RegularFindings(old) ==
    LET p == Preserved(old) IN SelectSeq(old, LAMBDA f : ~InSeq(f, p))

\* the archive's header line: compressed_count, and the count named in
\* compression_trigger
CompressionMetadata(id, findings, k) ==
    [Rec(0, "compression_metadata", "", "") EXCEPT
        !.cid = id,
        !.cnt = <<Len(RegularFindings(Old(findings, k))), k + Len(Old(findings, k))>>]

CountType(fs, types) == Len(SelectSeq(fs, LAMBDA f : f.type \in types))

\* _create_semantic_summary and lines 67-70: the counts of period_summary,
\* observation_patterns, insight_patterns and routine_issues, and the
\* compression id (the texts built from issue locations and insights are
\* left out: the records of the model carry neither)
SemanticSummary(id, findings, k) ==
    LET regular == RegularFindings(Old(findings, k)) IN
    [Rec(0, "semantic_summary", "", "") EXCEPT
        !.cid = id,
        !.cnt = <<Len(regular), Len(Old(findings, k)),
                  CountType(regular, {"observation"}),
                  CountType(regular, {"insight"}),
                  CountType(regular, {"bug", "issue"})>>]

CompressedArchive(id, findings, k) ==
    <<CompressionMetadata(id, findings, k)>> \o RegularFindings(Old(findings, k))

Compressed_SummaryLast(id, findings, k) ==
    Preserved(Old(findings, k)) \o Recent(findings, k)
        \o <<SemanticSummary(id, findings, k)>>

\* compressed = [compressed_summary] + preserved + recent
Compressed(id, findings, k) ==
    <<SemanticSummary(id, findings, k)>> \o Preserved(Old(findings, k))
        \o Recent(findings, k)

\* the counts compress_findings returns
CompressResult(findings, k) ==
    [NoResult EXCEPT
        !.original_count = Len(findings),
        !.compressed_count = Len(Compressed(0, findings, k)),
        !.preserved_discoveries = Len(Discoveries(Old(findings, k)))]

\* ------------------------------------------------------ memory_manager.py
PressureLevel_Inclusive(state) ==
    IF state.total_entries <= 50 THEN "low"
    ELSE IF state.total_entries <= 100 THEN "medium"
    ELSE IF state.total_entries <= 200 THEN "high"
    ELSE "critical"

\* MemoryState.pressure_level
PressureLevel(state) ==
    IF state.total_entries < 50 THEN "low"
    ELSE IF state.total_entries < 100 THEN "medium"
    ELSE IF state.total_entries < 200 THEN "high"
    ELSE "critical"

\* self.triggers, in the order of the list
Triggers ==
    << [name |-> "critical_pressure", keep_recent |-> 20, priority |-> 100,
        description |-> "Emergency compression at >200 entries"],
       [name |-> "high_pressure_aged", keep_recent |-> 25, priority |-> 80,
        description |-> "High memory pressure with aged content"],
       [name |-> "routine_maintenance", keep_recent |-> 30, priority |-> 40,
        description |-> "Routine maintenance compression"],
       [name |-> "discovery_preservation", keep_recent |-> 35, priority |-> 60,
        description |-> "Compress to preserve discovery patterns"] >>

\* should_compress returned None
NoTrigger ==
    [name |-> "none", keep_recent |-> 0, priority |-> 0, description |-> ""]

\* trigger.condition(state): memory_age_hours > 2.0 and
\* last_compression_hours > 4.0 in tenths of an hour
Condition(trigger, state) ==
    CASE trigger.name = "critical_pressure" ->
            PressureLevel(state) = "critical"
      [] trigger.name = "high_pressure_aged" ->
            PressureLevel(state) = "high" /\ state.memory_age_hours > 20
      [] trigger.name = "routine_maintenance" ->
            /\ state.total_entries > 75
            /\ state.last_compression_hours # -1
            /\ state.last_compression_hours > 40
      [] trigger.name = "discovery_preservation" ->
            state.discoveries > 10 /\ state.total_entries > 60
      [] OTHER -> FALSE

\* sorted(ts, key=lambda t: t.priority, reverse=True): the first trigger of
\* highest priority, then the others sorted
RECURSIVE SortedByPriority(_)
SortedByPriority(ts) ==
    IF ts = <<>> THEN <<>>
    ELSE LET top == CHOOSE i \in DOMAIN ts :
                        /\ \A j \in DOMAIN ts : ts[j].priority <= ts[i].priority
                        /\ \A j \in 1..(i - 1) : ts[j].priority < ts[i].priority
             rest == [j \in 1..(Len(ts) - 1) |-> IF j < top THEN ts[j] ELSE ts[j + 1]]
         IN  <<ts[top]>> \o SortedByPriority(rest)

FirstMatch(ts, state) ==
    LET matching == SelectSeq(ts, LAMBDA t : Condition(t, state))
    IN  IF matching = <<>> THEN NoTrigger ELSE matching[1]

ShouldCompress_ListOrder(state) == FirstMatch(Triggers, state)

\* should_compress
ShouldCompress(state) == FirstMatch(SortedByPriority(Triggers), state)

Min(a, b) == IF a <= b THEN a ELSE b

\* the issues no resolved record of the findings names by issue_id
UnresolvedIssues(findings) ==
    SelectSeq(findings, LAMBDA i :
        /\ i.type = "issue"
        /\ ~\E k \in DOMAIN findings :
               findings[k].type = "resolved" /\ findings[k].issue_id = i.id)

CheckMemoryHealth_Elapsed(file, raised) ==
    LET findings == LoadFindings(file) IN
    IF raised \/ findings = <<>> THEN ZeroState
    ELSE [total_entries |-> Len(findings),
          recent_entries |-> Min(20, Len(findings)),
          discoveries |-> CountType(findings, {"discovery"}),
          patterns |-> CountType(findings, {"pattern", "principle"}),
          unresolved_issues |-> Len(UnresolvedIssues(findings)),
          memory_age_hours |-> Len(findings),
          last_compression_hours |->
              IF CountType(findings, {"semantic_summary"}) > 0 THEN 50 ELSE -1]

\* check_memory_health: the MemoryState of the log, or the safe defaults when
\* reading the log raised; memory_age_hours = len(findings) * 0.1
CheckMemoryHealth(file, raised) ==
    LET findings == LoadFindings(file) IN
    IF raised \/ findings = <<>> THEN ZeroState
    ELSE [total_entries |-> Len(findings),
          recent_entries |-> Min(20, Len(findings)),
          discoveries |-> CountType(findings, {"discovery"}),
          patterns |-> CountType(findings, {"pattern", "principle"}),
          unresolved_issues |-> Len(UnresolvedIssues(findings)),
          memory_age_hours |-> Len(findings),
          last_compression_hours |->
              IF CountType(findings, {"semantic_summary"}) > 0 THEN 10 ELSE -1]

MemoryTooSmall_Never(state, force) == FALSE

MemoryTooSmall_Hundred(state, force) == state.total_entries < 101 /\ ~force

\* auto_compress_if_needed, line 195
MemoryTooSmall(state, force) == state.total_entries < 25 /\ ~force

KeepRecentOf_Fixed(trigger) == 15

\* auto_compress_if_needed, line 204
KeepRecentOf(trigger) ==
    IF trigger.name # "none" THEN trigger.keep_recent ELSE 15

\* auto_compress_if_needed, lines 212-216: the tags of a successful result
Tagged(res, trigger, state) ==
    [res EXCEPT
        !.trigger = IF trigger.name # "none" THEN trigger.name ELSE "manual",
        !.trigger_description =
            IF trigger.name # "none" THEN trigger.description ELSE "Manual compression",
        !.memory_pressure = PressureLevel(state),
        !.auto_compression = TRUE]

TriggerNamed(name) ==
    LET named == SelectSeq(Triggers, LAMBDA t : t.name = name)
    IN  IF named = <<>> THEN NoTrigger ELSE named[1]

\* ------------------------------------------ archive_findings, delete_findings
Lower(s) ==
    CASE s = "A" -> "a" [] s = "B" -> "b" [] s = "PARSER" -> "parser"
      [] s = "Memory" -> "memory" [] OTHER -> s

\* the tokens of json.dumps(finding).lower()
JsonText(f) ==
    ({"type", Lower(f.type), "severity", Lower(f.sev), "text", Lower(f.txt)} \ {""})

FilterMatches(filter, f) == filter # "" /\ Lower(filter) \in JsonText(f)

NeverArchived(f) == f.type \in {"discovery", "pattern", "principle"}

ShouldArchive(f, filter, older) ==
    /\ (older # 0 \/ FilterMatches(filter, f))
    /\ ~NeverArchived(f)

ShouldDelete(f, filter, ids) ==
    /\ ((ids # {} /\ f.id \in ids) \/ FilterMatches(filter, f))
    /\ ~NeverArchived(f)

ArchiveCandidates(findings, filter, older) ==
    SelectSeq(findings, LAMBDA f : ShouldArchive(f, filter, older))

ArchiveRemaining(findings, filter, older) ==
    SelectSeq(findings, LAMBDA f : ~ShouldArchive(f, filter, older))

DeletedFindings(findings, filter, ids) ==
    SelectSeq(findings, LAMBDA f : ShouldDelete(f, filter, ids))

DeleteRemaining(findings, filter, ids) ==
    SelectSeq(findings, LAMBDA f : ~ShouldDelete(f, filter, ids))

\* ------------------------------------------------- decompress_findings
IsMetadata(f) == f.type = "compression_metadata"

HasMetadata_Unchecked(lines) == TRUE

\* metadata is set once a compression_metadata line was read
HasMetadata(lines) == \E i \in DOMAIN lines : IsMetadata(lines[i])
CompressedFindings(lines) == SelectSeq(lines, LAMBDA f : ~IsMetadata(f))

IsSummaryOf(f, id) == f.type = "semantic_summary" /\ f.cid = id
SummaryRemoved(current, id) == \E i \in DOMAIN current : IsSummaryOf(current[i], id)
UpdatedFindings(current, id) == SelectSeq(current, LAMBDA f : ~IsSummaryOf(f, id))

FinalFindings(lines, current, id) ==
    CompressedFindings(lines) \o UpdatedFindings(current, id)

\* the counts decompress_findings returns
DecompressResult(lines, current, id) ==
    [NoResult EXCEPT
        !.recovered_count = Len(CompressedFindings(lines)),
        !.total_count = Len(FinalFindings(lines, current, id))]

\* --------------------------------------------------- list_compressions
\* the file names parent_dir.glob("compressed_*.jsonl") yields: the archives
\* and the renamed compressed_<n>.archived.jsonl
GlobCompressed(fs) == {n \in DOMAIN fs : n[1] \in {"compressed", "archived"}}

\* int(file_path.stem.split('_')[1]): the stem of an archive gives "<n>", the
\* stem of a renamed one "<n>.archived", which is no integer (ValueError)
StemIsInt(n) == n[1] = "compressed"

\* the compression ids list_compressions reports: the globbed files whose
\* name parses and whose first line is a compression_metadata record
ListCompressions(fs) ==
    {n[2] : n \in {m \in GlobCompressed(fs) :
                        /\ StemIsInt(m)
                        /\ fs[m] # <<>>
                        /\ IsMetadata(fs[m][1])}}

\* ------------------------------------------------- the file being written
\* Side files are named <<kind, number>>:
\*   compressed_<n>.jsonl, <log>.backup_<n>.jsonl, archive_<n>.jsonl,
\*   deleted_backup_<n>.jsonl, <log>.pre_decompress_<n>.jsonl,
\*   compressed_<n>.archived.jsonl
\* A call is a sequence of file writes; pc names the write that comes next.
SideStages == {"c_archive", "c_backup", "a_archive", "d_backup", "x_backup"}
MainStages == {"c_main", "a_main", "d_main", "x_main"}

StageFile ==
    CASE pc = "c_archive" -> <<"compressed", cur.cid>>
      [] pc = "c_backup" -> <<"backup", cur.cid>>
      [] pc = "a_archive" -> <<"archive", cur.cid>>
      [] pc = "d_backup" -> <<"deleted_backup", cur.cid>>
      [] pc = "x_backup" -> <<"pre_decompress", cur.cid>>
      [] OTHER -> <<"none", 0>>

\* the lines the write that comes next puts into its file, in order
StageLines ==
    LET findings == LoadFindings(cur.pre) IN
    CASE pc = "c_archive" -> CompressedArchive(cur.cid, findings, cur.keep)
      [] pc = "c_backup" -> main
      [] pc = "c_main" -> Compressed(cur.cid, findings, cur.keep)
      [] pc = "a_archive" -> ArchiveCandidates(findings, cur.filter, cur.older)
      [] pc = "a_main" -> ArchiveRemaining(findings, cur.filter, cur.older)
      [] pc = "d_backup" -> DeletedFindings(findings, cur.filter, cur.ids)
      [] pc = "d_main" -> DeleteRemaining(findings, cur.filter, cur.ids)
      [] pc = "x_backup" -> main
      [] pc = "x_main" ->
            FinalFindings(files[<<"compressed", cur.cid>>], findings, cur.cid)
      [] OTHER -> <<>>

NextStage ==
    CASE pc = "c_archive" -> "c_backup"
      [] pc = "c_backup" -> "c_main"
      [] pc = "c_main" -> "c_return"
      [] pc = "a_archive" -> "a_main"
      [] pc = "a_main" -> "a_return"
      [] pc = "d_backup" -> "d_main"
      [] pc = "d_main" -> "d_return"
      [] pc = "x_backup" -> "x_main"
      [] pc = "x_main" -> "x_rename"
      [] OTHER -> "idle"

\* ------------------------------------------------------------------ inputs
\* archive_findings(archive_filter, older_than_hours): "" and 0 stand for the
\* values python takes as false (None, "", 0)
ArchiveArgs == {<<"", 0>>, <<"A", 0>>, <<"b", 0>>, <<"", 24>>}

\* delete_findings(delete_filter, entry_ids)
DeleteArgs == {<<"", {}>>, <<"A", {}>>, <<"b", {}>>, <<"", {1}>>, <<"", {2}>>}

\* Mnemos.compress_findings(keep_recent): the values given for keep_recent
KeepArgs == {10, 15}

\* logs that grew to the sizes the triggers look at: <<records, discoveries>>
Shapes == {<<24, 0>>, <<25, 0>>, <<60, 5>>, <<61, 11>>, <<100, 0>>, <<200, 0>>}

\* the MemoryStates should_compress and pressure_level are evaluated on
MaxTotal == 201
MemoryStates ==
    {[ZeroState EXCEPT
        !.total_entries = t, !.recent_entries = Min(20, t), !.discoveries = d,
        !.memory_age_hours = a, !.last_compression_hours = l] :
        t \in 0..MaxTotal, d \in {0, 10, 11}, a \in {20, 21}, l \in {-1, 40, 41}}

\* ------------------------------------------------------------------ Init
\* a log longer than load_findings reads: a discovery, then observations
LongLog ==
    [i \in 1..(LoadLimit + 1) |->
        IF i = 1 THEN Rec(1, "discovery", "", "long")
                 ELSE Rec(i, "observation", "", "long")]

InitSmall ==
    /\ main = <<>>
    /\ nextId = 1
    /\ opsLeft = MaxOps
    /\ crashes = TRUE

\* a log one record short of what load_findings reads
NearLimitLog ==
    [i \in 1..(LoadLimit - 1) |-> Rec(i, "observation", "", "long")]

InitNearLimit ==
    /\ main = NearLimitLog
    /\ nextId = Len(NearLimitLog) + 1
    /\ opsLeft = MaxOps
    /\ crashes = FALSE

InitLong ==
    /\ main = LongLog
    /\ nextId = Len(LongLog) + 1
    /\ opsLeft = LongOps
    /\ crashes = FALSE

\* d discoveries, then n - d observations
GrownLog(n, d) ==
    [i \in 1..n |->
        IF i <= d THEN Rec(i, "discovery", "", "grown")
                  ELSE Rec(i, "observation", "", "grown")]

InitGrown ==
    /\ \E shape \in Shapes :
          /\ main = GrownLog(shape[1], shape[2])
          /\ nextId = shape[1] + 1
    /\ opsLeft = GrownOps
    /\ crashes = FALSE

Init ==
    /\ files = <<>>
    /\ clock = 0
    /\ pc = "idle"
    /\ cur = NoCall
    /\ prev = Done(NoCall)
    /\ (InitSmall \/ InitLong \/ InitNearLimit \/ InitGrown)

\* --------------------------------------------------------------- actions
\* int(time.time()): the clock never runs backwards
Now(t) == t >= clock

\* MnemosLogger._write_finding, called by each logging method
AppendFinding ==
    /\ pc = "idle"
    /\ nextId <= MaxAppend
    /\ \E k \in AppendKinds :
          main' = Append(main, Rec(nextId, k[1], k[2], k[3]))
    /\ nextId' = nextId + 1
    /\ prev' = Done(cur)
    /\ cur' = [NoCall EXCEPT !.op = "append", !.status = "written", !.pre = main]
    /\ UNCHANGED <<files, clock, pc, opsLeft, crashes>>

\* f.writelines(lines[:-1]) of undo
UndoLines_First(lines) == IF lines = <<>> THEN <<>> ELSE Tail(lines)

UndoLines(lines) == PyButLast(lines, 1)

\* MnemosLogger.undo: the log rewritten without its last line, and True
\* ("removed"); False ("empty") and nothing written on a missing or empty log
Undo ==
    /\ pc = "idle"
    /\ opsLeft > 0
    /\ opsLeft' = opsLeft - 1
    /\ main' = IF main = <<>> THEN main ELSE UndoLines(main)
    /\ prev' = Done(cur)
    /\ cur' = [NoCall EXCEPT !.op = "undo",
                             !.status = IF main = <<>> THEN "empty" ELSE "removed",
                             !.pre = main]
    /\ UNCHANGED <<files, clock, pc, nextId, crashes>>

Call(op) ==
    [NoCall EXCEPT !.op = op, !.pre = main]

\* a compaction call starts
Start ==
    /\ pc = "idle"
    /\ opsLeft > 0
    /\ opsLeft' = opsLeft - 1
    /\ prev' = Done(cur)
    /\ UNCHANGED <<nextId, crashes>>

\* compress_findings, lines 27-49: load, the no-op return, the compression id
CompressFindings ==
    /\ Start
    /\ UNCHANGED <<main, files>>
    /\ \E k \in 0..MaxKeep :
        LET findings == LoadFindings(main)
            c == [Call("compress") EXCEPT !.keep = k]
        IN  IF NoCompressionNeeded(findings, k)
            THEN /\ cur' = [c EXCEPT !.status = "no_compression_needed"]
                 /\ UNCHANGED <<pc, clock>>
            ELSE \E t \in Seconds :
                 /\ Now(t)
                 /\ clock' = t
                 /\ cur' = [c EXCEPT !.cid = t]
                 /\ pc' = "c_archive"

\* BiologicalMemoryManager.auto_compress_if_needed(force), called by
\* AutoCompressionIntegration.post_write_hook (force = False) and by
\* manual_compress(keep_recent) (force = True, keep_recent not passed on),
\* up to the compression id of the compress_findings it calls.  Reading the
\* log may raise (a line that is no JSON, an I/O error): in
\* check_memory_health, and in the load_findings of compress_findings.
AutoCompressIfNeeded ==
    /\ Start
    /\ UNCHANGED <<main, files>>
    /\ \E force \in BOOLEAN, healthRaises \in BOOLEAN, loadRaises \in BOOLEAN :
       \E arg \in IF force THEN KeepArgs ELSE {0} :
        LET state == CheckMemoryHealth(main, healthRaises)
            trigger == ShouldCompress(state)
            keep == KeepRecentOf(trigger)
            findings == LoadFindings(main)
            c == [Call("auto") EXCEPT
                    !.force = force, !.arg = arg, !.state = state,
                    !.failed = IF healthRaises THEN {"health"} ELSE {}]
            t == [c EXCEPT !.trigger = trigger.name]
        IN  IF MemoryTooSmall(state, force)
            THEN /\ ~loadRaises
                 /\ cur' = [c EXCEPT !.status = "no_action_needed",
                                     !.reason = "memory_too_small"]
                 /\ UNCHANGED <<pc, clock>>
            ELSE IF trigger.name = "none" /\ ~force
            THEN /\ ~loadRaises
                 /\ cur' = [t EXCEPT !.status = "no_action_needed",
                                     !.reason = "no_triggers_matched"]
                 /\ UNCHANGED <<pc, clock>>
            ELSE IF loadRaises
            THEN /\ cur' = [t EXCEPT !.keep = keep,
                                     !.status = "compression_failed",
                                     !.failed = @ \cup {"load"},
                                     !.res = [NoResult EXCEPT !.auto_compression = TRUE]]
                 /\ UNCHANGED <<pc, clock>>
            ELSE IF NoCompressionNeeded(findings, keep)
            THEN /\ cur' = [t EXCEPT !.keep = keep,
                                     !.status = "no_compression_needed"]
                 /\ UNCHANGED <<pc, clock>>
            ELSE \E now \in Seconds :
                 /\ Now(now)
                 /\ clock' = now
                 /\ cur' = [t EXCEPT !.keep = keep, !.cid = now]
                 /\ pc' = "c_archive"

\* archive_findings, lines 124-162: load, the split, the no-op returns, the
\* archive's name
ArchiveFindings ==
    /\ Start
    /\ UNCHANGED <<main, files>>
    /\ \E args \in ArchiveArgs :
        LET filter == args[1]
            older == args[2]
            findings == LoadFindings(main)
            c == [Call("archive") EXCEPT !.filter = filter, !.older = older]
        IN  IF findings = <<>>
            THEN /\ cur' = [c EXCEPT !.status = "no_findings"]
                 /\ UNCHANGED <<pc, clock>>
            ELSE IF ArchiveCandidates(findings, filter, older) = <<>>
            THEN /\ cur' = [c EXCEPT !.status = "no_candidates"]
                 /\ UNCHANGED <<pc, clock>>
            ELSE \E t \in Seconds :
                 /\ Now(t)
                 /\ clock' = t
                 /\ cur' = [c EXCEPT !.cid = t]
                 /\ pc' = "a_archive"

\* delete_findings, lines 179-215: load, the split, the no-op returns, the
\* name of the file of deleted records
DeleteFindings ==
    /\ Start
    /\ UNCHANGED <<main, files>>
    /\ \E args \in DeleteArgs :
        LET filter == args[1]
            ids == args[2]
            findings == LoadFindings(main)
            c == [Call("delete") EXCEPT !.filter = filter, !.ids = ids]
        IN  IF findings = <<>>
            THEN /\ cur' = [c EXCEPT !.status = "no_findings"]
                 /\ UNCHANGED <<pc, clock>>
            ELSE IF DeletedFindings(findings, filter, ids) = <<>>
            THEN /\ cur' = [c EXCEPT !.status = "no_matches"]
                 /\ UNCHANGED <<pc, clock>>
            ELSE \E t \in Seconds :
                 /\ Now(t)
                 /\ clock' = t
                 /\ cur' = [c EXCEPT !.cid = t]
                 /\ pc' = "d_backup"

\* decompress_findings, lines 232-275: the archive read, the three failure
\* returns
DecompressFindings ==
    /\ Start
    /\ UNCHANGED <<main, files, clock>>
    /\ \E id \in Seconds :
        LET c == [Call("decompress") EXCEPT !.cid = id]
            path == <<"compressed", id>>
        IN  IF path \notin DOMAIN files
            THEN /\ cur' = [c EXCEPT !.status = "archive_not_found"]
                 /\ UNCHANGED pc
            ELSE IF ~HasMetadata(files[path])
            THEN /\ cur' = [c EXCEPT !.status = "invalid_archive"]
                 /\ UNCHANGED pc
            ELSE IF ~SummaryRemoved(LoadFindings(main), id)
            THEN /\ cur' = [c EXCEPT !.status = "summary_not_found"]
                 /\ UNCHANGED pc
            ELSE /\ cur' = c
                 /\ pc' = "x_backup"

\* a side file written and closed: with open(path, 'w') and its loop of
\* f.write, or backup_path.write_text(...)
WriteSideFile ==
    /\ pc \in SideStages
    /\ files' = Put(files, StageFile, StageLines)
    /\ cur' = [cur EXCEPT !.wrote = @ \cup {StageFile}]
    /\ pc' = NextStage
    /\ UNCHANGED <<main, clock, prev, nextId, opsLeft, crashes>>

\* the main log rewritten and closed: with open(self.log_file, 'w') and its
\* loop of f.write
WriteMainLog ==
    /\ pc \in MainStages
    /\ main' = StageLines
    /\ pc' = NextStage
    /\ UNCHANGED <<files, clock, cur, prev, nextId, opsLeft, crashes>>

\* the counts of the result (archive_findings and delete_findings: none kept)
ReturnResult ==
    IF pc # "c_return" THEN NoResult
    ELSE IF cur.op = "auto"
    THEN Tagged(CompressResult(LoadFindings(cur.pre), cur.keep),
                TriggerNamed(cur.trigger), cur.state)
    ELSE CompressResult(LoadFindings(cur.pre), cur.keep)

ReturnStatus ==
    CASE pc = "c_return" -> "reversible_compression"
      [] pc = "a_return" -> "archived"
      [] pc = "d_return" -> "deleted"
      [] OTHER -> "none"

\* the result of compress_findings, archive_findings, delete_findings
Return ==
    /\ pc \in {"c_return", "a_return", "d_return"}
    /\ cur' = [cur EXCEPT !.status = ReturnStatus, !.res = ReturnResult]
    /\ pc' = "idle"
    /\ UNCHANGED <<main, files, clock, prev, nextId, opsLeft, crashes>>

\* decompress_findings, lines 286-297: the archive renamed, the result
DecompressReturn ==
    /\ pc = "x_rename"
    /\ files' = Put(Remove(files, <<"compressed", cur.cid>>),
                    <<"archived", cur.cid>>, files[<<"compressed", cur.cid>>])
    /\ cur' = [cur EXCEPT
                  !.status = "decompressed",
                  !.res = DecompressResult(files[<<"compressed", cur.cid>>],
                                           LoadFindings(cur.pre), cur.cid)]
    /\ pc' = "idle"
    /\ UNCHANGED <<main, clock, prev, nextId, opsLeft, crashes>>

\* The process stops inside a call: between two writes, or inside the write
\* that comes next, whose file was truncated by open(..., 'w') and holds the
\* first n lines of what the loop was writing.
Stopped ==
    /\ pc # "idle"
    /\ crashes
    /\ crashes' = FALSE
    /\ pc' = "idle"
    /\ cur' = [cur EXCEPT !.status = "crashed"]
    /\ UNCHANGED <<clock, prev, nextId, opsLeft>>

CrashBetweenWrites ==
    /\ Stopped
    /\ UNCHANGED <<main, files>>

CrashInSideFile ==
    /\ Stopped
    /\ pc \in SideStages
    /\ \E n \in 0..Len(StageLines) :
          /\ n < Len(StageLines)
          /\ files' = Put(files, StageFile, SubSeq(StageLines, 1, n))
    /\ UNCHANGED main

CrashInMainLog ==
    /\ Stopped
    /\ pc \in MainStages
    /\ \E n \in 0..Len(StageLines) :
          /\ n < Len(StageLines)
          /\ main' = SubSeq(StageLines, 1, n)
    /\ UNCHANGED files

Next ==
    \/ AppendFinding
    \/ Undo
    \/ CompressFindings
    \/ AutoCompressIfNeeded
    \/ ArchiveFindings
    \/ DeleteFindings
    \/ DecompressFindings
    \/ WriteSideFile
    \/ WriteMainLog
    \/ Return
    \/ DecompressReturn
    \/ CrashBetweenWrites
    \/ CrashInSideFile
    \/ CrashInMainLog

Spec == Init /\ [][Next]_vars

\* ------------------------------------------- should_compress on its own
\* every MemoryState of MemoryStates, not yet evaluated
InitEvaluate ==
    /\ main = <<>>
    /\ files = <<>>
    /\ clock = 0
    /\ pc = "idle"
    /\ prev = Done(NoCall)
    /\ nextId = 1
    /\ opsLeft = 1
    /\ crashes = FALSE
    /\ \E state \in MemoryStates : cur = [Call("evaluate") EXCEPT !.state = state]

\* should_compress(state) and state.pressure_level, as get_memory_status
\* calls them
GetMemoryStatus ==
    /\ cur.op = "evaluate"
    /\ cur.trigger = "unevaluated"
    /\ LET trigger == ShouldCompress(cur.state)
       IN  cur' = [cur EXCEPT
                     !.status = "evaluated",
                     !.trigger = trigger.name,
                     !.keep = trigger.keep_recent,
                     !.res = [NoResult EXCEPT
                                !.trigger_description = trigger.description,
                                !.memory_pressure = PressureLevel(cur.state)]]
    /\ UNCHANGED <<main, files, clock, pc, prev, nextId, opsLeft, crashes>>

SpecEvaluate == InitEvaluate /\ [][GetMemoryStatus]_vars

\* ================================================================= claims
Range(s) == {s[i] : i \in DOMAIN s}

Count(s, x) == Cardinality({i \in DOMAIN s : s[i] = x})

\* the same records the same number of times
SameBag(s, t) == \A x \in Range(s) \cup Range(t) : Count(s, x) = Count(t, x)

\* the records the retention policy protects
HighValueType(f) == f.type \in {"discovery", "pattern", "principle"}
Protected(f) == HighValueType(f) \/ (f.type = "issue" /\ f.sev = "critical")

InSomeFile(f) == \E n \in DOMAIN files : f \in Range(files[n])

Compressed_Returned == cur.op = "compress" /\ cur.status = "reversible_compression"
Archive_Returned == cur.op = "archive" /\ cur.status = "archived"
Delete_Returned == cur.op = "delete" /\ cur.status = "deleted"

\* a step that starts a call of op
Starts(op) == pc = "idle" /\ opsLeft' = opsLeft - 1 /\ cur'.op = op

\* C1: when compress_findings has returned reversible_compression, its
\* archive compressed_<id>.jsonl holds no discovery, pattern, principle or
\* critical issue, and every such record of the log it found is in the
\* rewritten main log.
C1_ProtectedStayInLog ==
    Compressed_Returned =>
        /\ \A f \in Range(files[<<"compressed", cur.cid>>]) : ~Protected(f)
        /\ \A f \in Range(cur.pre) : Protected(f) => f \in Range(main)

\* C2: the file of records archive_findings moved out of the log, and the
\* file of records delete_findings removed, hold no discovery, pattern,
\* principle or critical issue.
C2_CandidatesNeverProtected ==
    /\ Archive_Returned =>
          \A f \in Range(files[<<"archive", cur.cid>>]) : ~Protected(f)
    /\ Delete_Returned =>
          \A f \in Range(files[<<"deleted_backup", cur.cid>>]) : ~Protected(f)

\* C3: when archive_findings or delete_findings has rewritten the log, every
\* discovery, pattern and principle of the log it found is in the main log.
C3_HighValueTypesStay ==
    (Archive_Returned \/ Delete_Returned) =>
        \A f \in Range(cur.pre) : HighValueType(f) => f \in Range(main)

\* C4: when decompress_findings(id) has succeeded right after the compression
\* that returned id, the main log holds exactly the records, as a multiset, of
\* the log before that compression.
C4_RoundTrip ==
    ( /\ cur.op = "decompress"
      /\ cur.status = "decompressed"
      /\ prev.op = "compress"
      /\ prev.cid = cur.cid )
    => SameBag(main, prev.pre)

\* C5: a compress_findings(keep_recent) that finds at most keep_recent records
\* in the main log returns no_compression_needed and changes neither the main
\* log nor any side file, and creates none.
C5_NoCompressionNeeded ==
    [][ (Starts("compress") /\ Len(main) <= cur'.keep) =>
            /\ cur'.status = "no_compression_needed"
            /\ pc' = "idle"
            /\ main' = main
            /\ files' = files ]_vars

\* a compression left a log of keep_recent records alone
C5_Witness ==
    /\ cur.op = "compress"
    /\ cur.status = "no_compression_needed"
    /\ cur.keep > 0
    /\ Len(main) = cur.keep

\* C6: when compress_findings has returned reversible_compression, every
\* record of the log it found is in exactly one of the rewritten main log and
\* the archive it wrote.
C6_MovedNotDropped ==
    Compressed_Returned =>
        \A f \in Range(cur.pre) :
            (f \in Range(main)) # (f \in Range(files[<<"compressed", cur.cid>>]))

\* C7: compress_findings, archive_findings and delete_findings write their
\* side files under names no file of the store directory has yet (stated for
\* the behaviours in which no call was interrupted).
C7_FreshFileNames ==
    [][ ( /\ crashes'
          /\ pc \in {"c_archive", "c_backup", "a_archive", "d_backup"}
          /\ files' # files )
            => StageFile \notin DOMAIN files ]_vars

\* C8: whenever a call rewrites the main log, a file it wrote earlier holds
\* the complete log it found.
C8_BackupBeforeRewrite ==
    [][ (pc \in MainStages /\ main' # main)
            => \E n \in cur.wrote : files[n] = cur.pre ]_vars

\* C9: when the process has stopped inside a call, every record of the log
\* that call found is in the main log or in a side file.
C9_CrashLosesNothing ==
    cur.status = "crashed" =>
        \A f \in Range(cur.pre) : f \in Range(main) \/ InSomeFile(f)

\* C10: decompress_findings(id) returns archive_not_found without the file
\* compressed_<id>.jsonl, invalid_archive when that file has no
\* compression_metadata line, summary_not_found when the main log has no
\* semantic_summary of that id; each time the main log and all side files
\* stay as they were.
C10_DecompressFailures ==
    [][ Starts("decompress") =>
          LET id == cur'.cid
              path == <<"compressed", id>>
              found == path \in DOMAIN files
              header == found /\ \E i \in DOMAIN files[path] :
                            files[path][i].type = "compression_metadata"
              summary == \E i \in DOMAIN main :
                            main[i].type = "semantic_summary" /\ main[i].cid = id
          IN  /\ ~found => cur'.status = "archive_not_found"
              /\ (found /\ ~header) => cur'.status = "invalid_archive"
              /\ (header /\ ~summary) => cur'.status = "summary_not_found"
              /\ (~found \/ ~header \/ ~summary) =>
                    (main' = main /\ files' = files /\ pc' = "idle") ]_vars

\* decompress found an archive file without its metadata line
C10_Witness ==
    /\ cur.op = "decompress"
    /\ cur.status = "invalid_archive"
    /\ <<"compressed", cur.cid>> \in DOMAIN files

\* C11: once decompress_findings(id) has succeeded, list_compressions does not
\* report id, no file compressed_<id>.jsonl is in the store directory, and a
\* decompress_findings(id) that follows returns archive_not_found (stated for
\* the behaviours in which no call was interrupted).
C11_RecoveredOnce ==
    (crashes /\ prev.op = "decompress") =>
        /\ prev.cid \notin ListCompressions(files)
        /\ <<"compressed", prev.cid>> \notin DOMAIN files
        /\ (cur.op = "decompress" /\ cur.cid = prev.cid /\ pc = "idle")
                => cur.status = "archive_not_found"

\* C12: when decompress_findings(id) has succeeded, the main log is the
\* records of the archive without its metadata line, in the archive's order,
\* followed by the log the call found without the semantic_summary of id;
\* total_count is recovered_count plus the number of those remaining records.
C12_ArchiveThenRemaining ==
    (cur.op = "decompress" /\ cur.status = "decompressed") =>
        LET archive == files[<<"archived", cur.cid>>]
            recovered == SelectSeq(archive,
                            LAMBDA f : f.type # "compression_metadata")
            remaining == SelectSeq(cur.pre,
                            LAMBDA f : ~(f.type = "semantic_summary" /\ f.cid = cur.cid))
        IN  /\ main = recovered \o remaining
            /\ cur.res.recovered_count = Len(recovered)
            /\ cur.res.total_count = cur.res.recovered_count + Len(remaining)

\* the records the logger appended that the store holds, in the log or in a
\* side file
Stored ==
    {f \in Range(main) \cup UNION {Range(files[n]) : n \in DOMAIN files} :
        f.type \notin {"semantic_summary", "compression_metadata"}}

\* C13: a step takes an appended record out of the main log and of every side
\* file only if it is a step of a delete_findings call that selected the
\* record.
C13_OnlyDeleteDestroys ==
    [][ \A f \in Stored :
            \/ f \in Stored'
            \/ (cur'.op = "delete" /\ ShouldDelete(f, cur'.filter, cur'.ids)) ]_vars

\* the trigger table: condition, priority and keepRecent of each trigger
TableHolds(name, s) ==
    CASE name = "critical_pressure" -> s.total_entries >= 200
      [] name = "high_pressure_aged" ->
            s.total_entries \in 100..199 /\ s.memory_age_hours > 20
      [] name = "discovery_preservation" ->
            s.discoveries > 10 /\ s.total_entries > 60
      [] name = "routine_maintenance" ->
            s.total_entries > 75 /\ s.last_compression_hours > 40

TablePriority(name) ==
    CASE name = "critical_pressure" -> 100
      [] name = "high_pressure_aged" -> 80
      [] name = "discovery_preservation" -> 60
      [] name = "routine_maintenance" -> 40

TableKeepRecent(name) ==
    CASE name = "critical_pressure" -> 20
      [] name = "high_pressure_aged" -> 25
      [] name = "discovery_preservation" -> 35
      [] name = "routine_maintenance" -> 30

TableNames ==
    {"critical_pressure", "high_pressure_aged", "discovery_preservation",
     "routine_maintenance"}

\* C14: should_compress returns the trigger of highest priority among those
\* of the table whose condition holds on the MemoryState, with the table's
\* keepRecent, and none when no condition holds.
C14_HighestPriorityTrigger ==
    cur.status = "evaluated" =>
        LET holding == {n \in TableNames : TableHolds(n, cur.state)}
        IN  IF holding = {}
            THEN cur.trigger = "none"
            ELSE /\ cur.trigger \in holding
                 /\ \A n \in holding : TablePriority(n) <= TablePriority(cur.trigger)
                 /\ cur.keep = TableKeepRecent(cur.trigger)

\* discovery_preservation chosen where routine_maintenance holds too
C14_Witness ==
    /\ cur.status = "evaluated"
    /\ TableHolds("routine_maintenance", cur.state)
    /\ TableHolds("discovery_preservation", cur.state)
    /\ cur.trigger = "discovery_preservation"
    /\ cur.keep = 35

C16_FailuresReported ==
    (cur.op = "auto" /\ pc = "idle" /\ cur.failed # {} /\ cur.pre # <<>>) =>
        cur.status = "compression_failed"

C18_KeepRecentOfTrigger ==
    (cur.op = "auto" /\ cur.status # "no_action_needed") =>
        /\ cur.trigger # "none" => cur.keep = TableKeepRecent(cur.trigger)
        /\ cur.keep = 15 <=> (cur.force /\ cur.trigger = "none")
        /\ cur.status = "reversible_compression" =>
              /\ cur.res.trigger =
                    IF cur.trigger = "none" THEN "manual" ELSE cur.trigger
              /\ cur.res.trigger_description =
                    IF cur.trigger = "none" THEN "Manual compression"
                    ELSE TriggerNamed(cur.trigger).description
              /\ cur.res.memory_pressure =
                    IF cur.state.total_entries < 50 THEN "low"
                    ELSE IF cur.state.total_entries < 100 THEN "medium"
                    ELSE IF cur.state.total_entries < 200 THEN "high"
                    ELSE "critical"

\* the post-write hook compressed a log of 100 records on high_pressure_aged
C18_Witness ==
    /\ cur.op = "auto"
    /\ ~cur.force
    /\ cur.status = "reversible_compression"
    /\ cur.trigger = "high_pressure_aged"
    /\ cur.keep = 25
    /\ cur.res.trigger = "high_pressure_aged"
    /\ cur.res.memory_pressure = "high"

\* how many records of a log have the type
NumberOf(log, type) == Cardinality({i \in DOMAIN log : log[i].type = type})

\* C19: Mnemos.compress_findings(keep_recent = k) on a log of n > k records,
\* d of them discoveries and the others observations, returns
\* reversible_compression with preserved_discoveries = d and
\* compressed_count = 1 + d + k (stated for n up to 60, the size of the
\* spec's instance).
C19_CountsOfCoreCompress ==
    ( /\ cur.op = "auto"
      /\ cur.force
      /\ pc = "idle"
      /\ cur.status # "crashed"
      /\ cur.failed = {}
      /\ \A i \in DOMAIN cur.pre : cur.pre[i].type \in {"discovery", "observation"}
      /\ cur.arg < Len(cur.pre)
      /\ Len(cur.pre) <= 60 )
    => /\ cur.status = "reversible_compression"
       /\ cur.res.preserved_discoveries = NumberOf(cur.pre, "discovery")
       /\ cur.res.compressed_count = 1 + NumberOf(cur.pre, "discovery") + cur.arg

\* C20: when compress_findings(keep_recent) has classified the records it
\* loaded, recent is the last keep_recent of them, old the records before
\* those, and the preserved and the compressed records are disjoint and
\* together the old ones (stated for the logs of up to MaxAppend records).
C20_ClassifyPartitions ==
    (pc = "c_archive" /\ Len(cur.pre) <= MaxAppend) =>
        LET findings == LoadFindings(cur.pre)
            n == Len(findings)
            old == Old(findings, cur.keep)
        IN  /\ Recent(findings, cur.keep) = SubSeq(findings, n - cur.keep + 1, n)
            /\ old = SubSeq(findings, 1, n - cur.keep)
            /\ Range(Preserved(old)) \cap Range(RegularFindings(old)) = {}
            /\ Range(Preserved(old)) \cup Range(RegularFindings(old)) = Range(old)

\* ====================================================== reading the log
\* What the logger writes besides AppendKinds, and the operations that read
\* the log without rewriting it: search (MnemosLogger), active_threads and
\* summarize (MnemosAnalyzer), the memory status (BiologicalMemoryManager),
\* load_findings (MnemosCompressor).  The post-write hook that follows every
\* append finds fewer than 25 records in the logs below and does nothing.

MaxRecall == 3       \* lines of the log in a behaviour of SpecRecall

RecentLimit == 20    \* load_recent(20) in active_threads and in summarize

\* the arguments the calls are given
ThreadNames == {"parser", "cache"}
ThreadStatuses == {"active", "completed", "abandoned"}
IssueIds == 1..2
SearchTerms == {"PARSER", "active"}
SearchTypes == {"", "thread"}
SearchLimits == {0, 2}

\* a line json.loads rejects (a torn line), and a line that is JSON but no
\* object (42)
InvalidLine == [Rec(-1, "", "", "") EXCEPT !.json = "invalid"]
ScalarLine == [Rec(-1, "", "", "") EXCEPT !.json = "scalar"]

\* text.split() for the texts of the model
Words(text) ==
    CASE text = "" -> <<>>
      [] text = "look here" -> <<"look", "here">>
      [] text = "found cause" -> <<"found", "cause">>
      [] text = "memory pressure rising" -> <<"memory", "pressure", "rising">>
      [] OTHER -> <<text>>

\* a read-only call and what it returned: its arguments, the exception that
\* left it (raised), the list (out), status and counts of its result, and the
\* list _find_momentum_patterns handed to get_momentum_suggestions (patterns)
NoQuery ==
    [op |-> "none", term |-> "", type |-> "", limit |-> 0, raised |-> "",
     out |-> <<>>, status |-> "", recent_issues |-> 0, total_findings |-> 0,
     unresolved_issues |-> 0, total_entries |-> 0, patterns |-> <<>>,
     context |-> ""]

HasInvalid(lines) == \E i \in DOMAIN lines : lines[i].json = "invalid"
HasScalar(lines) == \E i \in DOMAIN lines : lines[i].json = "scalar"

\* load_recent: json.loads of every line, then findings[-limit:]
LoadRecent(file, limit) == PyLast(file, limit)

\* the loop of active_threads: recent holds the findings not yet visited, the
\* last one is visited next; threads holds the names collected so far
RECURSIVE ScanThreads(_, _)
ScanThreads(recent, threads) ==
    IF recent = <<>> THEN threads
    ELSE LET finding == recent[Len(recent)]
             visited ==
                 IF finding.type # "thread" THEN threads
                 ELSE IF finding.status = "active" /\ ~InSeq(finding.thread, threads)
                 THEN Append(threads, finding.thread)
                 ELSE IF finding.status \in {"completed", "abandoned"}
                 THEN SelectSeq(threads, LAMBDA t : t # finding.thread)
                 ELSE threads
         IN  ScanThreads(SubSeq(recent, 1, Len(recent) - 1), visited)

ActiveThreads(file) == ScanThreads(LoadRecent(file, RecentLimit), <<>>)

\* summarize: json.loads of an invalid line raises out of load_recent, a
\* line that is no object raises at its first .get
SummarizeResult(file) ==
    LET recent == LoadRecent(file, RecentLimit) IN
    IF HasInvalid(file)
    THEN [NoQuery EXCEPT !.op = "summarize", !.raised = "JSONDecodeError"]
    ELSE IF HasScalar(recent)
    THEN [NoQuery EXCEPT !.op = "summarize", !.raised = "AttributeError"]
    ELSE [NoQuery EXCEPT
            !.op = "summarize",
            !.status = "summary",
            !.recent_issues = CountType(recent, {"bug", "issue"}),
            !.total_findings = CountType(recent, {"bug", "issue", "discovery"}),
            !.out = ActiveThreads(file)]

\* get_memory_status: check_memory_health catches what load_findings and its
\* own .get calls raise
MemoryHealthResult(file) ==
    LET state == CheckMemoryHealth(file,
                     HasInvalid(file) \/ HasScalar(LoadFindings(file)))
    IN  [NoQuery EXCEPT
            !.op = "memory_health",
            !.status = IF state.total_entries < 150 THEN "healthy"
                                                     ELSE "under_pressure",
            !.unresolved_issues = state.unresolved_issues,
            !.total_entries = state.total_entries]

\* load_findings(1000) as compress, archive, delete and decompress call it
LoadResult(file) ==
    IF HasInvalid(file)
    THEN [NoQuery EXCEPT !.op = "load_findings", !.raised = "JSONDecodeError"]
    ELSE [NoQuery EXCEPT !.op = "load_findings", !.status = "loaded",
                         !.out = LoadFindings(file)]

\* term.lower() in text: the term is empty, the text, or one of its words
Contains(text, term) == term = "" \/ term = text \/ InSeq(term, Words(text))

\* the string values of a finding, its id and timestamp left out
SearchableText(f) ==
    {Lower(value) : value \in {f.type, f.sev, f.txt, f.thread, f.status}}

SearchMatches(f, term, type) ==
    /\ type = "" \/ f.type = type
    /\ \E text \in SearchableText(f) : Contains(text, Lower(term))

\* search: a line json.loads rejects is skipped, a line that is no object
\* raises at .get; results[-limit:] if results else []
SearchResult(file, term, type, limit) ==
    LET call == [NoQuery EXCEPT !.op = "search", !.term = term, !.type = type,
                                !.limit = limit]
        parsed == SelectSeq(file, LAMBDA line : line.json # "invalid")
        results == SelectSeq(parsed, LAMBDA f : SearchMatches(f, term, type))
    IN  IF HasScalar(file) THEN [call EXCEPT !.raised = "AttributeError"]
        ELSE [call EXCEPT
                !.status = "found",
                !.out = IF results = <<>> THEN <<>> ELSE PyLast(results, limit)]

\* ------------------------------------------------------------ SpecRecall
InitRecall ==
    /\ main = <<>>
    /\ files = <<>>
    /\ clock = 0
    /\ pc = "idle"
    /\ prev = Done(NoCall)
    /\ nextId = 1
    /\ opsLeft = 0
    /\ crashes = FALSE
    /\ cur = NoQuery

\* _write_finding of a logger method
Written(op, finding) ==
    /\ main' = Append(main, finding)
    /\ cur' = [NoQuery EXCEPT !.op = op, !.status = "written"]
    /\ UNCHANGED <<files, clock, pc, prev, opsLeft, crashes>>

\* MnemosLogger.issue
Issue ==
    /\ Len(main) < MaxRecall
    /\ Written("issue", Rec(nextId, "issue", "medium", "crash"))
    /\ nextId' = nextId + 1

\* MnemosLogger.resolve: the issue_id is whatever the caller passes
Resolve ==
    /\ Len(main) < MaxRecall
    /\ \E issue_id \in IssueIds :
          Written("resolve",
                  [Rec(nextId, "resolved", "", "fixed") EXCEPT !.issue_id = issue_id])
    /\ nextId' = nextId + 1

\* MnemosLogger.thread: the record has no id
Thread ==
    /\ Len(main) < MaxRecall
    /\ \E name \in ThreadNames, status \in ThreadStatuses :
          Written("thread",
                  [Rec(-1, "thread", "", "") EXCEPT !.thread = name, !.status = status])
    /\ UNCHANGED nextId

\* a line that is no record gets into the log (a write cut short, another
\* writer)
Corrupt ==
    /\ Len(main) < MaxRecall
    /\ \E line \in {InvalidLine, ScalarLine} : Written("corrupt", line)
    /\ UNCHANGED nextId

\* a call that reads the log and writes nothing
ReadOnly == UNCHANGED <<main, files, clock, pc, prev, nextId, opsLeft, crashes>>

Summarize ==
    /\ cur' = SummarizeResult(main)
    /\ ReadOnly

MemoryHealth ==
    /\ cur' = MemoryHealthResult(main)
    /\ ReadOnly

Load ==
    /\ cur' = LoadResult(main)
    /\ ReadOnly

Search ==
    /\ \E term \in SearchTerms, type \in SearchTypes, limit \in SearchLimits :
          cur' = SearchResult(main, term, type, limit)
    /\ ReadOnly

NextRecall ==
    \/ Issue
    \/ Resolve
    \/ Thread
    \/ Corrupt
    \/ Summarize
    \/ MemoryHealth
    \/ Load
    \/ Search

SpecRecall == InitRecall /\ [][NextRecall]_vars

\* the lines that are records
ValidLines(file) == SelectSeq(file, LAMBDA line : line.json = "object")

\* C21: whatever lines that are no valid records the log holds, summarize,
\* search, the memory status and load_findings return, without raising,
\* what they return for the log of the valid records alone.
C21_CorruptLinesSkipped ==
    /\ cur.op = "summarize" => cur = SummarizeResult(ValidLines(main))
    /\ cur.op = "search" =>
          cur = SearchResult(ValidLines(main), cur.term, cur.type, cur.limit)
    /\ cur.op = "memory_health" => cur = MemoryHealthResult(ValidLines(main))
    /\ cur.op = "load_findings" => cur = LoadResult(ValidLines(main))

\* the issues of the log that no later resolved record names
NumberActive(file) ==
    Cardinality({i \in DOMAIN file :
        /\ file[i].type = "issue"
        /\ ~\E k \in DOMAIN file :
               k > i /\ file[k].type = "resolved" /\ file[k].issue_id = file[i].id})

\* C23: on a log of valid records, an issue that a later resolved record
\* names is counted neither among the issues summarize reports nor among the
\* unresolved issues of the memory status.
C23_ResolvedIssueNotActive ==
    ValidLines(main) = main =>
        /\ cur.op = "summarize" => cur.recent_issues <= NumberActive(main)
        /\ cur.op = "memory_health" => cur.unresolved_issues <= NumberActive(main)

\* C24: the issue_id of every resolved record of the log is the id of an
\* issue record of the log (the calls of SpecRecall remove no line: an issue
\* once written is in the log).
C24_ResolvedNamesAnIssue ==
    \A k \in DOMAIN main :
        main[k].type = "resolved" =>
            \E i \in DOMAIN main :
                main[i].type = "issue" /\ main[i].id = main[k].issue_id

\* the status of the last thread record of recent that carries the name
LastStatus(recent, name) ==
    LET at == {i \in DOMAIN recent :
                  recent[i].type = "thread" /\ recent[i].thread = name}
    IN  IF at = {} THEN "none"
        ELSE recent[CHOOSE i \in at : \A j \in at : j <= i].status

\* C25: the active threads summarize reports are the names whose most recent
\* thread record, among the last 20 records of the log, has status active,
\* each once.
C25_ActiveThreadsByLastStatus ==
    cur.op = "summarize" /\ cur.raised = "" =>
        /\ Range(cur.out) =
              {name \in ThreadNames :
                  LastStatus(LoadRecent(main, RecentLimit), name) = "active"}
        /\ Cardinality(Range(cur.out)) = Len(cur.out)

RECURSIVE Reverse(_)
Reverse(s) == IF s = <<>> THEN <<>> ELSE Append(Reverse(Tail(s)), Head(s))

FirstN(s, n) == SubSeq(s, 1, Min(n, Len(s)))

\* C26: on a log of valid records, search returns the limit most recent
\* records that match the term and the type filter, the most recent first,
\* all of them when fewer than limit match, and never more than limit.
C26_SearchMostRecentFirst ==
    cur.op = "search" /\ ValidLines(main) = main =>
        cur.out =
            FirstN(Reverse(SelectSeq(main, LAMBDA f :
                               SearchMatches(f, cur.term, cur.type))),
                   cur.limit)

\* ============================================== behavioural patterns
\* MomentumEngine, InvestigationFlows, SearchPatterns and MemorySurface over
\* a log whose every line is a record the logger wrote: _load_entries
\* returns them all.  A ratio is kept as <<numerator, denominator>> and
\* compared exactly.

MaxHistory == 7      \* lines of the log in a behaviour of SpecPatterns

RecentEntries == 3    \* get_momentum_suggestions(recent_entries=3, limit=3)
SuggestionLimit == 3
WindowSize == 3       \* entries[i:i+3]

\* the texts the logger's callers pass
ObservationTexts == {"look here", "memory pressure rising"}
InsightTexts == {"look here"}
DiscoveryTexts == {"found cause"}
BreadcrumbTerms == {"Memory"}
SurfaceContexts == {"", "memory", "cause"}

\* the field that holds the text (txt) of a record of the type
ContentField(type) ==
    CASE type = "observation" -> "what"
      [] type = "insight" -> "understanding"
      [] type = "discovery" -> "breakthrough"
      [] type \in {"issue", "antipattern"} -> "problem"
      [] type = "consideration" -> "idea"
      [] type = "pattern" -> "insight"
      [] type = "principle" -> "rule"
      [] type = "resolved" -> "solution"
      [] OTHER -> "none"

Max(a, b) == IF a >= b THEN a ELSE b

\* ' '.join(words)
RECURSIVE JoinWords(_)
JoinWords(words) ==
    IF words = <<>> THEN ""
    ELSE IF Len(words) = 1 THEN words[1]
    ELSE words[1] \o " " \o JoinWords(Tail(words))

\* [w for w in text.split() if len(w) > 4 and w.isalpha()][:n] of the field
\* what, understanding, breakthrough or problem of the entry (every word of
\* the model is alphabetic)
MomentumWords(entry, n) ==
    IF ContentField(entry.type) \in {"what", "understanding", "breakthrough", "problem"}
    THEN FirstN(SelectSeq(Words(Lower(entry.txt)), LAMBDA w : Len(w) > 4), n)
    ELSE <<>>

KeywordSet(entries, n) ==
    UNION {Range(MomentumWords(entries[i], n)) : i \in DOMAIN entries}

TypeSet(entries) == {entries[i].type : i \in DOMAIN entries}

\* _extract_investigation_focus: the types and the keywords (3 an entry) of
\* the recent entries; its themes are not used by the similarity
InvestigationFocus(entries) ==
    [types |-> TypeSet(entries), keywords |-> KeywordSet(entries, 3)]

\* _calculate_context_similarity: 0.7 * type_similarity + 0.3 *
\* keyword_similarity, 2 keywords an entry of the window
ContextSimilarity(window, focus) ==
    LET type_overlap == Cardinality(TypeSet(window) \cap focus.types)
        types == Max(Max(Cardinality(TypeSet(window)), Cardinality(focus.types)), 1)
        keyword_overlap == Cardinality(KeywordSet(window, 2) \cap focus.keywords)
        keywords == Max(Max(Cardinality(KeywordSet(window, 2)),
                            Cardinality(focus.keywords)), 1)
    IN  <<7 * type_overlap * keywords + 3 * keyword_overlap * types,
          10 * types * keywords>>

\* similarity_score > 0.3
SimilarEnough(similarity) == 10 * similarity[1] > 3 * similarity[2]

\* _extract_next_action: the first 6 words of the entry's text; "" stands for
\* None
NextAction(entry) ==
    IF entry.type \in {"observation", "insight", "discovery", "issue"}
    THEN JoinWords(FirstN(Words(entry.txt), 6))
    ELSE ""

\* range(len(entries) - 4), counted from 1
WindowStarts(entries) == 1..(Len(entries) - 4)

\* the first loop of _find_momentum_patterns: one pattern for each window
\* that is similar enough and followed by an entry with a next action; at is
\* where the window starts
FoundPatterns(entries, focus) ==
    LET Found(i) ==
            LET window == SubSeq(entries, i, i + WindowSize - 1)
                next_entry == entries[i + WindowSize]
            IN  [at |-> i,
                 next_step |-> NextAction(next_entry),
                 outcome_type |-> next_entry.type,
                 similar |-> SimilarEnough(ContextSimilarity(window, focus)),
                 frequency |-> 0, successes |-> 0]
    IN  IF WindowStarts(entries) = {} THEN <<>>
        ELSE SelectSeq([i \in WindowStarts(entries) |-> Found(i)],
                       LAMBDA p : p.similar /\ p.next_step # "")

\* pattern['outcome_type'] in ['discovery', 'resolved', 'insight']
Succeeded_DiscoveryOnly(outcome_type) == outcome_type = "discovery"

Succeeded(outcome_type) == outcome_type \in {"discovery", "resolved", "insight"}

\* pattern_stats, written into each pattern: frequency, and success_rate =
\* successes / frequency
WithStats(patterns) ==
    LET Same(p) == SelectSeq(patterns, LAMBDA q : q.next_step = p.next_step)
    IN  [i \in DOMAIN patterns |->
            [patterns[i] EXCEPT
                !.frequency = Len(Same(patterns[i])),
                !.successes = Len(SelectSeq(Same(patterns[i]),
                                  LAMBDA q : Succeeded(q.outcome_type)))]]

\* (success_rate, frequency) of p greater than that of q
KeyGreater(p, q) ==
    \/ p.successes * q.frequency > q.successes * p.frequency
    \/ /\ p.successes * q.frequency = q.successes * p.frequency
       /\ p.frequency > q.frequency

\* sorted(final_patterns, key=(success_rate, frequency), reverse=True): equal
\* keys stay in the order they had
RECURSIVE SortedPatterns(_)
SortedPatterns(patterns) ==
    IF patterns = <<>> THEN <<>>
    ELSE LET p == patterns[Len(patterns)]
             before == SortedPatterns(SubSeq(patterns, 1, Len(patterns) - 1))
         IN  SelectSeq(before, LAMBDA q : ~KeyGreater(p, q))
                 \o <<p>> \o SelectSeq(before, LAMBDA q : KeyGreater(p, q))

FindMomentumPatterns(entries, focus) ==
    SortedPatterns(WithStats(FoundPatterns(entries, focus)))

\* get_momentum_suggestions: [] on a missing log and on fewer entries than
\* recent_entries; else a suggestion for each of the first limit patterns
\* (confidence = success_rate kept as successes of frequency)
MomentumResult(entries) ==
    LET call == [NoQuery EXCEPT !.op = "momentum", !.limit = SuggestionLimit]
        focus == InvestigationFocus(PyLast(entries, RecentEntries))
        momentum_patterns == FindMomentumPatterns(entries, focus)
    IN  IF Len(entries) < RecentEntries THEN [call EXCEPT !.status = "none"]
        ELSE [call EXCEPT
                !.status = "suggested",
                !.patterns = momentum_patterns,
                !.out = [i \in 1..Min(SuggestionLimit, Len(momentum_patterns)) |->
                            [suggestion |-> momentum_patterns[i].next_step,
                             successes |-> momentum_patterns[i].successes,
                             frequency |-> momentum_patterns[i].frequency,
                             at |-> momentum_patterns[i].at]]]

\* ------------------------------------------- Counter(...).most_common(n)
\* the different elements of s, in the order they first occur
RECURSIVE Distinct(_)
Distinct(s) ==
    IF s = <<>> THEN <<>>
    ELSE LET before == Distinct(SubSeq(s, 1, Len(s) - 1))
         IN  IF InSeq(s[Len(s)], before) THEN before ELSE Append(before, s[Len(s)])

\* keys ordered by how often they occur in s, most often first, equal counts
\* in the order of keys
RECURSIVE SortedByCount(_, _)
SortedByCount(keys, s) ==
    IF keys = <<>> THEN <<>>
    ELSE LET x == keys[Len(keys)]
             before == SortedByCount(SubSeq(keys, 1, Len(keys) - 1), s)
         IN  SelectSeq(before, LAMBDA y : Count(s, y) >= Count(s, x))
                 \o <<x>> \o SelectSeq(before, LAMBDA y : Count(s, y) < Count(s, x))

MostCommon(s, n) == FirstN(SortedByCount(Distinct(s), s), n)

RECURSIVE Concat(_)
Concat(ss) == IF ss = <<>> THEN <<>> ELSE Head(ss) \o Concat(Tail(ss))

\* ---------------------------------------------- _group_by_time_windows
FlowWindow == 5      \* len(current_window) >= 5 closes a window
FlowLimit == 3       \* get_investigation_flows(limit=3)
BreadcrumbLimit == 5 \* get_search_breadcrumbs(current_term, limit=5)

\* the entries in windows of 5, the last one shorter
GroupByWindows(entries) ==
    [w \in 1..((Len(entries) + FlowWindow - 1) \div FlowWindow) |->
        SubSeq(entries, FlowWindow * (w - 1) + 1, Min(FlowWindow * w, Len(entries)))]

\* get_investigation_flows: the type sequences of the windows of more than
\* one entry, the limit most common ones with their counts (the pattern is
\* kept as the sequence of types that the code joins with arrows; the
\* example entries are left out)
FlowsResult(entries) ==
    LET windows == SelectSeq(GroupByWindows(entries), LAMBDA w : Len(w) > 1)
        flows == [k \in DOMAIN windows |->
                     [i \in DOMAIN windows[k] |-> windows[k][i].type]]
        common == MostCommon(flows, FlowLimit)
    IN  [NoQuery EXCEPT
            !.op = "flows", !.limit = FlowLimit, !.status = "flows",
            !.out = [k \in DOMAIN common |->
                        [pattern |-> common[k], count |-> Count(flows, common[k])]]]

\* _extract_key_terms: 2 long words an entry, each term once
KeyTerms(window) ==
    Distinct(Concat([i \in DOMAIN window |-> MomentumWords(window[i], 2)]))

\* get_search_breadcrumbs: the terms that follow current_term in the term
\* sequences of the windows, the limit most common ones
BreadcrumbsResult(entries, current_term) ==
    LET sequences == SelectSeq([k \in DOMAIN GroupByWindows(entries) |->
                                   KeyTerms(GroupByWindows(entries)[k])],
                               LAMBDA terms : Len(terms) > 1)
        Following(sequence) ==
            IF ~InSeq(Lower(current_term), sequence) THEN <<>>
            ELSE LET term_index == CHOOSE i \in DOMAIN sequence :
                                       /\ sequence[i] = Lower(current_term)
                                       /\ \A j \in 1..(i - 1) :
                                              sequence[j] # Lower(current_term)
                 IN  SelectSeq(SubSeq(sequence, term_index + 1, Len(sequence)),
                               LAMBDA next_term : next_term # Lower(current_term))
        related == Concat([k \in DOMAIN sequences |-> Following(sequences[k])])
    IN  [NoQuery EXCEPT
            !.op = "breadcrumbs", !.term = current_term, !.limit = BreadcrumbLimit,
            !.status = "breadcrumbs",
            !.out = MostCommon(related, BreadcrumbLimit)]

\* ----------------------------------------------------- MemorySurface
MinimumHistory == 5       \* len(entries) < 5: _empty_surface()
RecentContext == 3        \* recent_limit=3, entries[:-3]
MaxSuggestions == 5       \* self.max_suggestions

StopWords ==
    {"this", "that", "with", "have", "will", "from", "they", "been", "were",
     "said", "each", "which", "their", "time", "would", "there", "could",
     "other", "more", "very", "what", "know", "just", "first", "into", "over",
     "think", "also", "your", "work", "life", "only", "when", "come", "like",
     "make", "well", "even", "back", "good", "much", "take", "find"}

\* _get_entry_content: the text of the first content field the entry has;
\* "" stands for None
EntryContent(entry) ==
    IF ContentField(entry.type) \in
           {"what", "understanding", "breakthrough", "problem", "idea", "insight", "rule"}
    THEN entry.txt ELSE ""

\* _extract_keywords: the words of more than 3 letters that are no stop
\* words, at most 10
ExtractKeywords(text) ==
    FirstN(SelectSeq(Words(Lower(text)),
                     LAMBDA word : Len(word) > 3 /\ word \notin StopWords), 10)

\* _extract_current_context: the types of the recent entries, the keywords
\* of their contents (the first 10 different ones), the themes (of the 5 most
\* common keywords those that occur more than once), the issues no resolved
\* record names
CurrentContext(entries, explicit_context) ==
    LET recent_entries == IF Len(entries) >= RecentContext
                          THEN PyLast(entries, RecentContext) ELSE entries
        all_keywords == Concat([i \in DOMAIN recent_entries |->
                                   ExtractKeywords(EntryContent(recent_entries[i]))])
    IN  [recent_types |-> TypeSet(recent_entries),
         keywords |-> FirstN(Distinct(all_keywords), 10),
         themes |-> SelectSeq(MostCommon(all_keywords, 5),
                              LAMBDA word : Count(all_keywords, word) > 1),
         active_issues |-> UnresolvedIssues(entries),
         explicit_focus |-> explicit_context]

\* complement_map
Complements(type) ==
    CASE type = "observation" -> {"insight", "discovery"}
      [] type = "insight" -> {"discovery", "pattern"}
      [] type = "issue" -> {"resolved", "discovery"}
      [] OTHER -> {}

\* _calculate_relevance: the score as <<numerator, denominator>>, in tenths
\* of the two ratios' common denominator; min(score, 1.0)
Relevance(entry, context) ==
    LET content == EntryContent(entry)
        entry_keywords == Range(ExtractKeywords(content))
        keywords == Max(Len(context.keywords), 1)
        themes == Max(Len(context.themes), 1)
        one == keywords * themes
        type_part == IF entry.type \in context.recent_types THEN 3 * one ELSE 0
        complement_part ==
            IF Complements(entry.type) \cap context.recent_types # {}
            THEN 2 * one ELSE 0
        keyword_part ==
            IF content # "" /\ context.keywords # <<>>
            THEN 4 * Cardinality(entry_keywords \cap Range(context.keywords)) * themes
            ELSE 0
        theme_part ==
            IF content # "" /\ context.themes # <<>>
            THEN 5 * Cardinality(entry_keywords \cap Range(context.themes)) * keywords
            ELSE 0
        issue_part ==
            IF entry.type = "resolved"
            THEN 6 * one * Len(SelectSeq(context.active_issues, LAMBDA issue :
                         Range(ExtractKeywords(EntryContent(issue)))
                             \cap entry_keywords # {}))
            ELSE 0
        strategic_part ==
            IF entry.type \in {"discovery", "pattern", "principle"} THEN 2 * one ELSE 0
        explicit_part ==
            IF /\ context.explicit_focus # ""
               /\ content # ""
               /\ Range(ExtractKeywords(context.explicit_focus)) \cap entry_keywords # {}
            THEN 7 * one ELSE 0
        score == type_part + complement_part + keyword_part + theme_part
                     + issue_part + strategic_part + explicit_part
    IN  <<Min(score, 10 * one), 10 * one>>

\* relevance_score > self.relevance_threshold (0.4)
Relevant(score) == 10 * score[1] > 4 * score[2]

\* _explain_relevance: the reasons in the order the code appends them, the
\* first 3 (the theme names of the second reason, taken from a set in no
\* fixed order, are left out of its text)
ExplainRelevance(entry, context) ==
    LET content == EntryContent(entry)
        entry_keywords == Range(ExtractKeywords(content))
        same_type ==
            IF entry.type \in context.recent_types
            THEN <<"Same type (" \o entry.type \o ") in recent investigation">>
            ELSE <<>>
        shares_themes ==
            IF content # "" /\ entry_keywords \cap Range(context.themes) # {}
            THEN <<"Shares themes">> ELSE <<>>
        resolution ==
            IF entry.type = "resolved" /\ context.active_issues # <<>>
            THEN <<"Previous resolution pattern for active issues">> ELSE <<>>
        strategic ==
            IF entry.type \in {"discovery", "pattern", "principle"}
            THEN <<"Strategic " \o entry.type \o " from investigation history">>
            ELSE <<>>
        explicit ==
            IF /\ context.explicit_focus # ""
               /\ content # ""
               /\ Range(ExtractKeywords(context.explicit_focus)) \cap entry_keywords # {}
            THEN <<"Matches current investigation focus">> ELSE <<>>
    IN  FirstN(same_type \o shares_themes \o resolution \o strategic \o explicit, 3)

\* the loop of _find_relevant_findings: the entries before the last 3 that
\* score above the threshold, in the order of the log; at is the entry's
\* place among the entries
RelevantFindings(entries, context) ==
    LET historical == IF Len(entries) > 3 THEN PyButLast(entries, 3) ELSE <<>>
        scored == [i \in DOMAIN historical |->
                      [at |-> i, entry |-> historical[i],
                       score |-> Relevance(historical[i], context),
                       reasons |-> ExplainRelevance(historical[i], context)]]
    IN  SelectSeq(scored, LAMBDA p : Relevant(p.score))

\* the relevance_score of p greater than that of q
ScoreGreater(p, q) == p.score[1] * q.score[2] > q.score[1] * p.score[2]

SortedByScore_LogOrder(relevant) == relevant

\* sorted(relevant, key=relevance_score, reverse=True): equal scores stay in
\* the order of the log.  The scores are compared as exact numbers: two float
\* sums that are equal as exact numbers can differ in their last bit
\* (0.2 + 0.7 and 0.2 + 0.2 + 0.5), and the code then orders them by that bit
RECURSIVE SortedByScore(_)
SortedByScore(relevant) ==
    IF relevant = <<>> THEN <<>>
    ELSE LET p == relevant[Len(relevant)]
             before == SortedByScore(SubSeq(relevant, 1, Len(relevant) - 1))
         IN  SelectSeq(before, LAMBDA q : ~ScoreGreater(p, q))
                 \o <<p>> \o SelectSeq(before, LAMBDA q : ScoreGreater(p, q))

\* len(entries) < 5
TooLittleHistory_Four(entries) == Len(entries) < MinimumHistory - 1

TooLittleHistory(entries) == Len(entries) < MinimumHistory

\* surface_relevant_memory: no_memory on a missing log and on fewer than 5
\* entries (semantic summaries not counted); else surfaced with the first 5
\* of the sorted relevant findings, or no_relevant_memory (the insights and
\* the confidence are left out)
SurfaceResult(file, current_context) ==
    LET call == [NoQuery EXCEPT !.op = "surface", !.context = current_context,
                                !.limit = MaxSuggestions]
        entries == SelectSeq(file, LAMBDA entry : entry.type # "semantic_summary")
        relevant_findings ==
            SortedByScore(
                RelevantFindings(entries, CurrentContext(entries, current_context)))
    IN  IF TooLittleHistory(entries) THEN [call EXCEPT !.status = "no_memory"]
        ELSE [call EXCEPT
                !.status = IF relevant_findings # <<>> THEN "surfaced"
                                                       ELSE "no_relevant_memory",
                !.out = FirstN(relevant_findings, MaxSuggestions)]

\* ---------------------------------------------------------- SpecPatterns
\* MnemosLogger.observation
Observation ==
    /\ Len(main) < MaxHistory
    /\ \E what \in ObservationTexts :
          Written("observation", Rec(nextId, "observation", "", what))
    /\ nextId' = nextId + 1

\* MnemosLogger.insight
Insight ==
    /\ Len(main) < MaxHistory
    /\ \E understanding \in InsightTexts :
          Written("insight", Rec(nextId, "insight", "", understanding))
    /\ nextId' = nextId + 1

\* MnemosLogger.discovery
Discovery ==
    /\ Len(main) < MaxHistory
    /\ \E breakthrough \in DiscoveryTexts :
          Written("discovery", Rec(nextId, "discovery", "", breakthrough))
    /\ nextId' = nextId + 1

\* Mnemos.momentum
Momentum ==
    /\ cur' = MomentumResult(main)
    /\ ReadOnly

\* BehavioralPatterns.get_investigation_flows
Flows ==
    /\ cur' = FlowsResult(main)
    /\ ReadOnly

\* BehavioralPatterns.get_search_breadcrumbs
Breadcrumbs ==
    /\ \E current_term \in BreadcrumbTerms :
          cur' = BreadcrumbsResult(main, current_term)
    /\ ReadOnly

\* Mnemos.surface_memory; "" stands for no explicit context
Surface ==
    /\ \E context \in SurfaceContexts : cur' = SurfaceResult(main, context)
    /\ ReadOnly

NextPatterns ==
    \/ Observation
    \/ Insight
    \/ Discovery
    \/ Momentum

SpecPatterns == InitRecall /\ [][NextPatterns]_vars

\* ----------------------------------------------------------- SpecSurface
\* the read-only calls on every log of at most MaxShort records that
\* observation, insight and discovery can have written, and on the same logs
\* behind the summary a compression left at the head of the log
MaxShort == 5

LoggedKinds ==
    {<<"observation", what>> : what \in ObservationTexts}
        \cup {<<"insight", understanding>> : understanding \in InsightTexts}
        \cup {<<"discovery", breakthrough>> : breakthrough \in DiscoveryTexts}

LoggedLogs ==
    UNION {{[i \in 1..n |-> Rec(i, kinds[i][1], "", kinds[i][2])] :
               kinds \in [1..n -> LoggedKinds]} : n \in 0..MaxShort}

ShortLogs ==
    LoggedLogs \cup {<<SemanticSummary(0, <<>>, 0)>> \o log : log \in LoggedLogs}

InitSurface ==
    /\ main \in ShortLogs
    /\ files = <<>>
    /\ clock = 0
    /\ pc = "idle"
    /\ prev = Done(NoCall)
    /\ nextId = Len(main) + 1
    /\ opsLeft = 0
    /\ crashes = FALSE
    /\ cur = NoQuery

NextSurface ==
    \/ Search
    \/ Breadcrumbs
    \/ Flows
    \/ Momentum
    \/ Surface

SpecSurface == InitSurface /\ [][NextSurface]_vars

\* C27: on a missing or empty log search, search breadcrumbs, investigation
\* flows, momentum and surfacing return an empty list or the no_memory
\* result; so do flows below 2 records, momentum below 3 records and
\* surfacing below 5 records; none of them raises.
C27_TooLittleHistory ==
    /\ cur.raised = ""
    /\ cur.op \in {"search", "breadcrumbs"} /\ main = <<>> => cur.out = <<>>
    /\ cur.op = "flows" /\ Len(main) < 2 => cur.out = <<>>
    /\ cur.op = "momentum" /\ Len(main) < 3 => cur.out = <<>>
    /\ cur.op = "surface" /\ Len(main) < 5 =>
          cur.status = "no_memory" /\ cur.out = <<>>

\* surfacing has answered no_memory on a log of 4 records
C27_Witness ==
    /\ cur.op = "surface"
    /\ Len(main) = 4
    /\ cur.status = "no_memory"
    /\ cur.raised = ""

\* the patterns of the call that give the next action of p
SameStep(p) == SelectSeq(cur.patterns, LAMBDA q : q.next_step = p.next_step)

C29_EveryWindowScanned ==
    cur.op = "momentum" /\ Len(main) >= 3 =>
        \A i \in 1..(Len(main) - 3) :
            /\ SimilarEnough(ContextSimilarity(SubSeq(main, i, i + 2),
                                 InvestigationFocus(PyLast(main, 3))))
            /\ NextAction(main[i + 3]) # ""
            => \E k \in DOMAIN cur.patterns : cur.patterns[k].at = i

\* C30: the suggestions momentum returns have pairwise different next-action
\* texts.
C30_OneSuggestionPerAction ==
    cur.op = "momentum" =>
        \A i, k \in DOMAIN cur.out :
            i # k => cur.out[i].suggestion # cur.out[k].suggestion

\* C22: a call of undo on a non-empty log leaves the log without its final
\* line, the earlier lines unchanged and in order, and returns True; on a
\* missing or empty log it returns False and changes nothing; either way no
\* side file (archive, backup) is touched.
C22_UndoRemovesFinalLine ==
    [][Starts("undo") =>
          /\ files' = files
          /\ IF main # <<>>
             THEN /\ main' = SubSeq(main, 1, Len(main) - 1)
                  /\ cur'.status = "removed"
             ELSE /\ main' = main
                  /\ cur'.status = "empty"]_vars

\* undo has removed the second of two different records, beside side files
C22_Witness ==
    /\ cur.op = "undo"
    /\ cur.status = "removed"
    /\ Len(cur.pre) = 2
    /\ cur.pre[1] # cur.pre[2]
    /\ main = <<cur.pre[1]>>
    /\ files # <<>>

\* C31: on a log of at least 5 records every finding surfacing returns is a
\* record before the last 3 of the log and no semantic_summary, has a
\* relevance score above 0.4 and at most 1.0 and at most 3 relevance
\* reasons; the findings are in descending order of score.
C31_SurfacedFindings ==
    cur.op = "surface" /\ Len(main) >= 5 =>
        /\ \A i \in DOMAIN cur.out :
              LET p == cur.out[i] IN
              /\ \E k \in 1..(Len(main) - 3) : main[k] = p.entry
              /\ \A k \in (Len(main) - 2)..Len(main) : main[k] # p.entry
              /\ p.entry.type # "semantic_summary"
              /\ 10 * p.score[1] > 4 * p.score[2]
              /\ p.score[1] <= p.score[2]
              /\ Len(p.reasons) <= 3
        /\ \A i, k \in DOMAIN cur.out :
              i < k => cur.out[i].score[1] * cur.out[k].score[2]
                           >= cur.out[k].score[1] * cur.out[i].score[2]

\* surfacing has put a later discovery that reached the cap, with 3 of its 4
\* reasons, before an earlier observation of lower score, on a log that
\* holds a semantic_summary
C31_Witness ==
    /\ cur.op = "surface"
    /\ cur.context = "cause"
    /\ \E i \in DOMAIN main : main[i].type = "semantic_summary"
    /\ Len(cur.out) = 2
    /\ cur.out[1].at > cur.out[2].at
    /\ cur.out[1].entry.type = "discovery"
    /\ cur.out[1].score[1] = cur.out[1].score[2]
    /\ Len(cur.out[1].reasons) = 3
    /\ cur.out[2].entry.type = "observation"
    /\ cur.out[2].score[1] < cur.out[2].score[2]

\* the statuses of a call that found nothing to do
NoOpStatuses == {"no_findings", "no_candidates", "no_matches"}

\* C32: when archive_findings (delete_findings) has returned archived
\* (deleted), the main log is the log it found without its candidates, in
\* order, and the archive file (the deleted-backup file) holds exactly the
\* candidates, in order; on a log that is empty or holds no candidate it
\* returns a no-op status, the main log is the one it found and it wrote no
\* file.
C32_OnlyCandidatesRemoved ==
    /\ Archive_Returned =>
          /\ main = SelectSeq(cur.pre, LAMBDA f : ~ShouldArchive(f, cur.filter, cur.older))
          /\ files[<<"archive", cur.cid>>] =
                SelectSeq(cur.pre, LAMBDA f : ShouldArchive(f, cur.filter, cur.older))
    /\ Delete_Returned =>
          /\ main = SelectSeq(cur.pre, LAMBDA f : ~ShouldDelete(f, cur.filter, cur.ids))
          /\ files[<<"deleted_backup", cur.cid>>] =
                SelectSeq(cur.pre, LAMBDA f : ShouldDelete(f, cur.filter, cur.ids))
    /\ (cur.op = "archive" /\ pc = "idle" /\ cur.status # "crashed"
            /\ \A i \in DOMAIN cur.pre : ~ShouldArchive(cur.pre[i], cur.filter, cur.older))
          => cur.status \in NoOpStatuses
    /\ (cur.op = "delete" /\ pc = "idle" /\ cur.status # "crashed"
            /\ \A i \in DOMAIN cur.pre : ~ShouldDelete(cur.pre[i], cur.filter, cur.ids))
          => cur.status \in NoOpStatuses
    /\ (cur.op \in {"archive", "delete"} /\ cur.status \in NoOpStatuses)
          => main = cur.pre /\ cur.wrote = {}

\* ========================================================== the core API
\* Mnemos.observation, insight, discovery, issue, resolve, consideration,
\* pattern, principle, antipattern and thread: each writes its record through
\* the logger, runs _post_write_hook and returns; Mnemos.undo.  The hook is
\* auto_compress_if_needed(force=False), whose compression writes its files
\* one after the other as in every compress_findings.  Every line of the
\* logs below is a record, and no read fails.

MaxCore == 2        \* calls of the core API in a behaviour of SpecCore

NoRecord == Rec(-1, "", "", "")

\* a call of the core API: NoCall with the method called, the record it
\* appended, the log it found (before), how often the monitor ran in it
\* (hooks) and what the call before it was (follows)
NoCoreCall ==
    [op |-> "none", status |-> "none", pre |-> <<>>, cid |-> -1, keep |-> 0,
     filter |-> "", older |-> 0, ids |-> {}, wrote |-> {}, res |-> NoResult,
     force |-> FALSE, arg |-> 0, state |-> ZeroState, trigger |-> "unevaluated",
     reason |-> "", failed |-> {},
     method |-> "", appended |-> NoRecord, before |-> <<>>, hooks |-> 0,
     follows |-> "none"]

\* the append methods of Mnemos and the record each writes
CoreAppends(id) ==
    { <<"observation", Rec(id, "observation", "", "look here")>>,
      <<"insight", Rec(id, "insight", "", "look here")>>,
      <<"discovery", Rec(id, "discovery", "", "found cause")>>,
      <<"issue", Rec(id, "issue", "medium", "crash")>>,
      <<"issue", Rec(id, "issue", "critical", "crash")>>,
      <<"resolve", [Rec(id, "resolved", "", "fixed") EXCEPT !.issue_id = 1]>>,
      <<"consideration", Rec(id, "consideration", "", "later")>>,
      <<"pattern", Rec(id, "pattern", "", "layers")>>,
      <<"principle", Rec(id, "principle", "", "small")>>,
      <<"antipattern", Rec(id, "antipattern", "", "globals")>>,
      <<"thread", [Rec(-1, "thread", "", "") EXCEPT
                      !.thread = "parser", !.status = "active"]>> }

\* logs the core API has grown from an empty store: <<records, discoveries,
\* whether a summary heads the log>>
CoreShapes ==
    { <<0, 0, FALSE>>, <<23, 0, FALSE>>, <<24, 0, FALSE>>, <<60, 11, FALSE>>,
      <<98, 0, FALSE>>, <<99, 0, FALSE>>, <<25, 0, TRUE>>, <<98, 0, TRUE>> }

CoreLog(shape) ==
    IF shape[3]
    THEN <<SemanticSummary(0, <<>>, 0)>> \o GrownLog(shape[1], shape[2])
    ELSE GrownLog(shape[1], shape[2])

InitCore ==
    /\ \E shape \in CoreShapes :
          /\ main = CoreLog(shape)
          /\ nextId = shape[1] + 1
    /\ files = <<>>
    /\ clock = 0
    /\ pc = "idle"
    /\ prev = Done(NoCall)
    /\ opsLeft = MaxCore
    /\ crashes = FALSE
    /\ cur = NoCoreCall

\* result = self.logger.<method>(...): _write_finding
CoreAppend ==
    /\ pc = "idle"
    /\ opsLeft > 0
    /\ opsLeft' = opsLeft - 1
    /\ \E a \in CoreAppends(nextId) :
          /\ main' = Append(main, a[2])
          /\ cur' = [NoCoreCall EXCEPT
                        !.op = "write", !.status = "written", !.method = a[1],
                        !.appended = a[2], !.before = main, !.follows = cur.op]
    /\ nextId' = nextId + 1
    /\ pc' = "hook"
    /\ prev' = Done(cur)
    /\ UNCHANGED <<files, clock, crashes>>

\* self._post_write_hook(): auto_compress_if_needed() up to the compression
\* id of the compress_findings it calls; `return result` follows the hook
\* with no step of its own
PostWriteHook ==
    /\ pc = "hook"
    /\ LET state == CheckMemoryHealth(main, FALSE)
           trigger == ShouldCompress(state)
           keep == KeepRecentOf(trigger)
           findings == LoadFindings(main)
           c == [cur EXCEPT !.op = "auto", !.pre = main, !.hooks = @ + 1,
                            !.state = state]
           t == [c EXCEPT !.trigger = trigger.name]
       IN  IF MemoryTooSmall(state, FALSE)
           THEN /\ cur' = [c EXCEPT !.status = "no_action_needed",
                                    !.reason = "memory_too_small"]
                /\ pc' = "idle"
                /\ UNCHANGED clock
           ELSE IF trigger.name = "none"
           THEN /\ cur' = [t EXCEPT !.status = "no_action_needed",
                                    !.reason = "no_triggers_matched"]
                /\ pc' = "idle"
                /\ UNCHANGED clock
           ELSE IF NoCompressionNeeded(findings, keep)
           THEN /\ cur' = [t EXCEPT !.keep = keep,
                                    !.status = "no_compression_needed"]
                /\ pc' = "idle"
                /\ UNCHANGED clock
           ELSE \E now \in Seconds :
                /\ Now(now)
                /\ clock' = now
                /\ cur' = [t EXCEPT !.keep = keep, !.cid = now]
                /\ pc' = "c_archive"
    /\ UNCHANGED <<main, files, prev, nextId, opsLeft, crashes>>

\* Mnemos.undo: MnemosLogger.undo, no hook
CoreUndo ==
    /\ pc = "idle"
    /\ opsLeft > 0
    /\ opsLeft' = opsLeft - 1
    /\ main' = IF main = <<>> THEN main ELSE UndoLines(main)
    /\ prev' = Done(cur)
    /\ cur' = [NoCoreCall EXCEPT
                  !.op = "undo",
                  !.status = IF main = <<>> THEN "empty" ELSE "removed",
                  !.pre = main, !.appended = cur.appended, !.before = cur.before,
                  !.follows = cur.op]
    /\ UNCHANGED <<files, clock, pc, nextId, crashes>>

NextCore ==
    \/ CoreAppend
    \/ PostWriteHook
    \/ WriteSideFile
    \/ WriteMainLog
    \/ Return
    \/ CoreUndo

SpecCore == InitCore /\ [][NextCore]_vars

\* a core append has returned
Append_Returned == cur.op = "auto" /\ cur.method # "" /\ pc = "idle"

\* C33: when an append of the core API has returned, the pressure monitor
\* has run once in it, after the record was written, and the appended record
\* is the last record of the main log, whether or not a compression ran.
C33_HookOnceRecordLast ==
    /\ pc = "hook" => main = Append(cur.before, cur.appended) /\ cur.hooks = 0
    /\ Append_Returned =>
          /\ cur.hooks = 1
          /\ main # <<>>
          /\ main[Len(main)] = cur.appended

\* an append has returned after its hook compressed the log, the appended
\* record last
C33_Witness ==
    /\ Append_Returned
    /\ cur.status = "reversible_compression"
    /\ cur.hooks = 1
    /\ Len(main) < Len(cur.pre)
    /\ main[Len(main)] = cur.appended

\* no record of a type the compression preserves is in the log or in a file
NothingPreserved == \A f \in Stored : ~Protected(f)

\* C34: while no discovery, pattern, principle or critical issue has been
\* appended, the main log holds fewer than 100 records whenever an append of
\* the core API has returned; the append that found 99 records ran a
\* compression that left the summary and the 25 most recent records.
C34_BelowHundred ==
    (Append_Returned /\ NothingPreserved) =>
        /\ Len(main) < 100
        /\ Len(cur.pre) = 100 =>
              /\ cur.status = "reversible_compression"
              /\ Len(main) = 26
              /\ main[1].type = "semantic_summary"
              /\ SubSeq(main, 2, 26) = SubSeq(cur.pre, 76, 100)

\* the hundredth record of a log that an earlier compression had left its
\* summary in has been appended, and 26 records are left
C34_Witness ==
    /\ Append_Returned
    /\ NothingPreserved
    /\ Len(cur.pre) = 100
    /\ cur.pre[1].type = "semantic_summary"
    /\ cur.trigger = "high_pressure_aged"
    /\ Len(main) = 26

\* C39: when undo has returned right after an append of the core API, the
\* main log is the log that append found, also when the append's hook ran a
\* compression.
C39_AppendThenUndo ==
    (cur.op = "undo" /\ cur.follows = "auto") => main = cur.before

\* C35: when compress_findings has returned reversible_compression, the main
\* log holds fewer records than the log the call found.
C35_CompressionShrinks ==
    Compressed_Returned => Len(main) < Len(cur.pre)

\* the compression archives decompress_findings has not yet consumed
Unconsumed == {n \in DOMAIN files : n[1] = "compressed"}

HoldsSummaryOf(lines, id) == \E i \in DOMAIN lines : IsSummaryOf(lines[i], id)

\* C36: between calls, for every compression archive not yet consumed by
\* decompress_findings a semantic_summary with its compression id is in the
\* main log or in another unconsumed compression archive (stated for the
\* behaviours in which no call was interrupted).
C36_SummaryOfEveryArchive ==
    (pc = "idle" /\ crashes) =>
        \A n \in Unconsumed :
            \/ HoldsSummaryOf(main, n[2])
            \/ \E m \in Unconsumed \ {n} : HoldsSummaryOf(files[m], n[2])

\* C38: the MemoryState the health check derives from the log has
\* last_compression_hours None or 1.0, so should_compress never returns
\* routine_maintenance on it; its memory_age_hours is 0.1 times its
\* total_entries, so from 100 entries on the condition of high_pressure_aged
\* or of critical_pressure holds and one of the two is returned.
C38_DerivedState ==
    cur.op = "auto" =>
        /\ cur.state.last_compression_hours \in {-1, 10}
        /\ cur.trigger # "routine_maintenance"
        /\ cur.state.memory_age_hours = cur.state.total_entries
        /\ cur.state.total_entries >= 100 =>
              /\ \/ TableHolds("high_pressure_aged", cur.state)
                 \/ TableHolds("critical_pressure", cur.state)
              /\ cur.trigger \in {"high_pressure_aged", "critical_pressure"}

\* the health check has found a summary among more than 100 records, and
\* high_pressure_aged was returned
C38_Witness ==
    /\ cur.op = "auto"
    /\ cur.state.last_compression_hours = 10
    /\ cur.state.total_entries > 100
    /\ cur.trigger = "high_pressure_aged"

\* ===================================================== nested compressions
\* Two compress_findings calls, then decompress_findings calls, with the
\* logger writing records in between; the log starts empty or longer than
\* load_findings reads.  No call is interrupted.

MaxNested == 3          \* records appended in a behaviour of SpecNested
NestedCompressions == 2
NestedOps == 5          \* the compressions, then up to 3 decompressions

\* what the logger writes here: an observation, a critical issue, and the
\* resolved record of the issue with id 1
NestedKinds(id) ==
    { Rec(id, "observation", "", "a"),
      Rec(id, "issue", "critical", "B"),
      [Rec(id, "resolved", "", "fixed") EXCEPT !.issue_id = 1] }

InitNested ==
    /\ \/ main = <<>> /\ nextId = 1
       \/ main = LongLog /\ nextId = Len(LongLog) + 1
    /\ files = <<>>
    /\ clock = 0
    /\ pc = "idle"
    /\ cur = NoCall
    /\ prev = Done(NoCall)
    /\ opsLeft = NestedOps
    /\ crashes = FALSE

\* MnemosLogger.observation, issue, resolve: _write_finding
LogFinding ==
    /\ pc = "idle"
    /\ nextId <= MaxNested
    /\ \E finding \in NestedKinds(nextId) : main' = Append(main, finding)
    /\ nextId' = nextId + 1
    /\ prev' = Done(cur)
    /\ cur' = [NoCall EXCEPT !.op = "append", !.status = "written", !.pre = main]
    /\ UNCHANGED <<files, clock, pc, opsLeft, crashes>>

\* the first calls are the compressions
NestedCompress ==
    /\ opsLeft > NestedOps - NestedCompressions
    /\ CompressFindings

\* the later calls are decompressions
NestedDecompress ==
    /\ opsLeft <= NestedOps - NestedCompressions
    /\ DecompressFindings

NextNested ==
    \/ LogFinding
    \/ NestedCompress
    \/ NestedDecompress
    \/ WriteSideFile
    \/ WriteMainLog
    \/ Return
    \/ DecompressReturn

SpecNested == InitNested /\ [][NextNested]_vars

\* C40: when compress_findings has returned reversible_compression, every
\* issue of the main log that a resolved record of the log it found names is
\* named by a resolved record of the main log, and the main log has no more
\* unresolved issues than the log it found.
C40_ResolvedStaysResolved ==
    Compressed_Returned =>
        /\ \A i \in DOMAIN main :
              ( /\ main[i].type = "issue"
                /\ \E k \in DOMAIN cur.pre :
                      cur.pre[k].type = "resolved" /\ cur.pre[k].issue_id = main[i].id )
              => \E k \in DOMAIN main :
                      main[k].type = "resolved" /\ main[k].issue_id = main[i].id
        /\ Len(UnresolvedIssues(main)) <= Len(UnresolvedIssues(cur.pre))

\* the archive of the compression id, consumed or not
ArchiveOf(id) ==
    IF <<"compressed", id>> \in DOMAIN files THEN files[<<"compressed", id>>]
    ELSE IF <<"archived", id>> \in DOMAIN files THEN files[<<"archived", id>>]
    ELSE <<>>

\* the compression id was called with keep_recent >= 1: its old records were
\* not empty
KeptRecent(id) == ArchiveOf(id) # <<>> /\ ArchiveOf(id)[1].cnt[2] > 0

\* both compressions have run, neither a no-op, the first in second 0 and
\* the second in second 1, each with keep_recent >= 1
TwoCompressions ==
    /\ pc = "idle"
    /\ opsLeft <= NestedOps - NestedCompressions
    /\ <<"backup", 0>> \in DOMAIN files
    /\ <<"backup", 1>> \in DOMAIN files
    /\ KeptRecent(0)
    /\ KeptRecent(1)

\* the main log holds the records of the log the first compression found,
\* each as often as there, and every record appended since, once
AllBack ==
    LET before == files[<<"backup", 0>>] IN
    /\ \A f \in Range(before) : Count(main, f) = Count(before, f)
    /\ \A f \in Range(main) \ Range(before) :
          /\ f.type \notin {"semantic_summary", "compression_metadata"}
          /\ Count(main, f) = 1
    /\ \A id \in 1..(nextId - 1) : \E i \in DOMAIN main : main[i].id = id

\* C37: after two compressions with ids 0 then 1, both with keep_recent >= 1
\* and neither a no-op, the summary of 0 is in the archive of 1 as long as
\* that is not decompressed, and decompress_findings(0) then returns
\* summary_not_found and leaves the log alone; once decompress_findings(1)
\* has succeeded, decompress_findings(0) succeeds (a repeated call finds
\* the archive consumed), and the main log then holds, as a multiset, the
\* records of the log before compression 0 and those appended since.
C37_LastInFirstOut ==
    TwoCompressions =>
        /\ <<"compressed", 1>> \in DOMAIN files =>
              /\ HoldsSummaryOf(files[<<"compressed", 1>>], 0)
              /\ (cur.op = "decompress" /\ cur.cid = 0) =>
                    cur.status = "summary_not_found" /\ main = cur.pre
        /\ (<<"archived", 1>> \in DOMAIN files /\ cur.op = "decompress" /\ cur.cid = 0) =>
              /\ cur.status \in {"decompressed", "archive_not_found"}
              /\ <<"archived", 0>> \in DOMAIN files
              /\ AllBack
====
